---- MODULE Spec2Model ----
(***************************************************************************)
(* A model of video-to-prompts: the frame-extraction pipeline              *)
(* (electron/ffmpeg.ts), the analysis client (electron/lmstudio.ts), the   *)
(* IPC handlers of the main process and the renderer's App / Storyboard    *)
(* state (timeline, analysis cache).                                       *)
(*                                                                         *)
(* Text is modelled as TLA+ strings, processed character by character      *)
(* with Len, SubSeq and \o.  A TLA+ string literal cannot hold the         *)
(* backtick character, so the apostrophe stands for it everywhere:         *)
(* "'''json" is the text of a markdown fence with the json language tag.   *)
(***************************************************************************)
EXTENDS Integers, Sequences, FiniteSets, TLC

VARIABLES
    flowCall,       \* which IPC handler was invoked: "sequential" or "batch"
    flowPaths,      \* its imagePaths argument
    flowFiles,      \* the image files that exist on disk
    flowPc,         \* "called", "loop", "await", "done"
    flowI,          \* the loop variable i
    flowResults,    \* the results array
    flowSent,       \* the progress notifications sent to the renderer, in order
    flowIssued,     \* the unit index of every compareFrames / analyzeFrame call made
    flowOutcomes,   \* what each of those calls resolved to, in order
    flowInFlight,   \* the calls issued and not yet resolved
    flowReturn,     \* what the handler returned, <<>> while it runs
    scLines,        \* the frames ffmpeg selected: what its showinfo lines report
    scStream,       \* the text ffmpeg writes to stderr over the whole run
    scPos,          \* how many characters of it the 'data' events have delivered
    scAligned,      \* whether every chunk so far ended at the end of a line
    scFrames,       \* extractSceneChanges' frames array
    scPc,           \* "running", "closed", "failed"
    scDir,          \* the names in the output directory when the process closes
    scExit,         \* the exit code
    scResult,       \* what the promise settled to, <<>> while it is pending
    lmRequests,     \* the analyze-sequence requests not handled yet: frame path lists
    lmCall,         \* the lmstudio.ts function called last, "none" before any call
    lmPaths,        \* the frame paths it was given
    lmHttp,         \* how the endpoint answered it
    lmOpen,         \* the model's text: what precedes the body,
    lmBody,         \*   the body,
    lmClose,        \*   and what follows it
    lmResult,       \* what the call returned
    lmMimes,        \* the MIME type of each image its request embedded, in order
    lmPrevPaths,    \* the frame paths of the analyzeSequence call before it
    lmPrevResult,   \* and what that call returned
    filePath,       \* App: the selected video, "" for null
    frames,         \* App: the frame records shown in the grid
    selectedIndices,    \* App: the selected positions of frames, from 0
    isProcessing,   \* App: an extraction is running
    extractionFor,  \* the filePath the running handleRunExtraction closed over
    storyboardOpen, \* App: the storyboard view is open
    storyboardFrames,   \* App: the frame paths it is opened on
    storyTimeline,  \* App: the timeline of scenes
    cachedAnalysis, \* App: the last narrative analysis, <<>> for null
    sbAnalysis,     \* StoryboardView: analysis, <<>> for null
    sbLoading,      \* StoryboardView: loading
    sbError,        \* StoryboardView: error, <<>> for null
    pendingStory,   \* the analyzeStorySequence calls awaiting their result
    ipcSent,        \* the IPC invocations the last handler run made
    consoleLog,     \* the console messages the last handler run wrote
    showExtractionDialog,   \* App: the existing-frames dialog is open
    doTimeFrames,   \* App: the time-sampling mode is ticked
    doKeyframes,    \* App: the keyframe mode is ticked
    doSceneChanges, \* App: the scene-change mode is ticked
    fps,            \* App: the sampling rate of the time-sampling mode
    dirHasFrames,   \* whether the output directory of the video holds frames
    extractions,    \* the output directories the extractors are at work on
    runReturned,    \* what the extractors of the last run returned, <<>> until it ends
    editingPanelIndex   \* StoryboardView: the panel whose frame is being picked, <<>> for null

flowVars == <<flowCall, flowPaths, flowFiles, flowPc, flowI, flowResults,
              flowSent, flowIssued, flowOutcomes, flowInFlight, flowReturn>>

sceneVars == <<scLines, scStream, scPos, scAligned, scFrames, scPc, scDir, scExit, scResult>>

lmVars == <<lmRequests, lmCall, lmPaths, lmHttp, lmOpen, lmBody, lmClose, lmResult, lmMimes,
            lmPrevPaths, lmPrevResult>>

appVars == <<filePath, frames, selectedIndices, isProcessing, extractionFor,
             storyboardOpen, storyboardFrames, storyTimeline, cachedAnalysis,
             sbAnalysis, sbLoading, sbError, pendingStory, ipcSent, consoleLog>>

runVars == <<showExtractionDialog, doTimeFrames, doKeyframes, doSceneChanges, fps,
             dirHasFrames, extractions, runReturned>>

pickerVars == <<editingPanelIndex>>

vars == <<flowVars, sceneVars, lmVars, appVars, runVars, pickerVars>>

----------------------------------------------------------------------------
(* Bounds *)

MaxFrames == 3

MaxLines == 2

MaxPaths == 2

MaxScenes == 2

MaxPending == 1

MaxObjects == 2

MaxTags == 2

----------------------------------------------------------------------------
(* Optional values: undefined, or a present value *)

Undefined == <<>>

Some(v) == <<v>>

----------------------------------------------------------------------------
(* Strings *)

Char(s, i) == SubSeq(s, i, i)

StartsWithAt(s, i, pat) ==
    /\ i + Len(pat) - 1 <= Len(s)
    /\ SubSeq(s, i, i + Len(pat) - 1) = pat

Includes(s, pat) == \E i \in 1..(Len(s) + 1) : StartsWithAt(s, i, pat)

IsSpace(c) == c \in {" ", "\n", "\t", "\r"}

RECURSIVE TrimStart(_)
TrimStart(s) ==
    IF Len(s) > 0 /\ IsSpace(Char(s, 1)) THEN TrimStart(SubSeq(s, 2, Len(s))) ELSE s

RECURSIVE TrimEnd(_)
TrimEnd(s) ==
    IF Len(s) > 0 /\ IsSpace(Char(s, Len(s))) THEN TrimEnd(SubSeq(s, 1, Len(s) - 1)) ELSE s

Trim(s) == TrimEnd(TrimStart(s))

(* s.replace(/<lit><opt>?/g, ''): every occurrence of lit, with one opt    *)
(* after it when there is one, is removed, scanning left to right.         *)
(* The text from position i on is copied up to the next occurrence, which  *)
(* is skipped, and so on from there.                                       *)
RECURSIVE RemoveAll(_, _, _, _)
RemoveAll(s, i, lit, opt) ==
    LET found == {k \in i..Len(s) : StartsWithAt(s, k, lit)}
        next == CHOOSE k \in found : \A j \in found : k <= j
    IN  IF found = {} THEN SubSeq(s, i, Len(s))
        ELSE SubSeq(s, i, next - 1)
             \o (IF StartsWithAt(s, next + Len(lit), opt)
                 THEN RemoveAll(s, next + Len(lit) + Len(opt), lit, opt)
                 ELSE RemoveAll(s, next + Len(lit), lit, opt))

(* String.prototype.toLowerCase on the letters the model uses *)
LowerChar(c) ==
    CASE c = "A" -> "a" [] c = "B" -> "b" [] c = "C" -> "c" [] c = "D" -> "d"
      [] c = "G" -> "g" [] c = "N" -> "n" [] c = "P" -> "p" [] c = "T" -> "t"
      [] OTHER -> c

RECURSIVE ToLowerCase(_)
ToLowerCase(s) ==
    IF Len(s) = 0 THEN "" ELSE LowerChar(Char(s, 1)) \o ToLowerCase(SubSeq(s, 2, Len(s)))

----------------------------------------------------------------------------
(* JSON.parse.  The documents the modelled endpoint can send, each with    *)
(* the value JSON.parse gives for it; any other text is a SyntaxError.     *)

FrameJson == "{\"summary\":\"a cat\",\"objects\":[\"Cat\"],\"tags\":[\"cat\",\"pet\"]}"

CompareJson == "{\"action_description\":\"moves\",\"differences\":[\"d\"]}"

SceneJson ==
    "{\"scene_id\":\"m1\",\"summary\":\"s\",\"panel_guidance\":{\"panels\":"
    \o "[{\"role\":\"setup\",\"best_frame_index\":0},"
    \o "{\"role\":\"reveal\",\"best_frame_index\":1}]}}"

SceneJsonB ==
    "{\"scene_id\":\"m2\",\"summary\":\"t\",\"panel_guidance\":{\"panels\":"
    \o "[{\"role\":\"action\",\"best_frame_index\":1}]}}"

(* JSON.stringify of an array of strings *)
RECURSIVE ArrayItemsText(_)
ArrayItemsText(array) ==
    IF Len(array) = 0 THEN ""
    ELSE IF Len(array) = 1 THEN "\"" \o array[1] \o "\""
    ELSE "\"" \o array[1] \o "\"," \o ArrayItemsText(Tail(array))

ArrayText(array) == "[" \o ArrayItemsText(array) \o "]"

(* single-frame analyses with any objects and tags over a few words: one   *)
(* word in two spellings of case, a word that contains it, another word    *)
TagWords == {"Cat", "cat", "cats", "pet"}

FrameValues ==
    {[summary |-> "a cat", objects |-> objects, tags |-> tags] :
        objects \in UNION {[1..n -> TagWords] : n \in 0..MaxObjects},
        tags \in UNION {[1..n -> TagWords] : n \in 0..MaxTags}}

FrameText(value) ==
    "{\"summary\":\"a cat\",\"objects\":" \o ArrayText(value.objects)
        \o ",\"tags\":" \o ArrayText(value.tags) \o "}"

FrameDocs == {<<FrameText(value), value>> : value \in FrameValues}

FrameDocTable ==
    [text \in {doc[1] : doc \in FrameDocs} |->
        (CHOOSE doc \in FrameDocs : doc[1] = text)[2]] @@ <<>>

JsonTable ==
    FrameDocTable
    @@ (CompareJson :> [action_description |-> "moves", differences |-> <<"d">>])
    @@ (SceneJson :>
          [scene_id |-> "m1", summary |-> "s",
           panel_guidance |->
              [panels |-> <<[role |-> "setup", best_frame_index |-> 0],
                            [role |-> "reveal", best_frame_index |-> 1]>>]])
    @@ (SceneJsonB :>
          [scene_id |-> "m2", summary |-> "t",
           panel_guidance |->
              [panels |-> <<[role |-> "action", best_frame_index |-> 1]>>]])

JSONParse(text) ==
    IF text \in DOMAIN JsonTable
    THEN [ok |-> TRUE, value |-> JsonTable[text]]
    ELSE [ok |-> FALSE, value |-> Undefined]

----------------------------------------------------------------------------
(* electron/lmstudio.ts: cleaning and parsing the model's response *)

(* text.replace(/'''json\n?/g, '').replace(/'''\n?/g, '').trim() *)
StripFences(text) ==
    Trim(RemoveAll(RemoveAll(text, 1, "'''json", "\n"), 1, "'''", "\n"))

(* text.replace(/'''json\n ? /g, '').replace(/'''\n?/g, '').trim(): the   *)
(* first pattern needs a space after the line break, and takes a second.  *)
StripFencesSequence(text) ==
    Trim(RemoveAll(RemoveAll(text, 1, "'''json\n ", " "), 1, "'''", "\n"))

(* The endpoint as one call sees it: the connection fails, the status is   *)
(* not OK, the body is not a completion, or content is the model's text.   *)
HttpKinds == {"refused", "status500", "garbled", "ok"}

EndpointError(http) ==
    CASE http = "refused" -> "fetch failed"
      [] http = "status500" -> "LM Studio API Error: 500 Internal Server Error"
      [] http = "garbled" -> "Cannot read properties of undefined (reading '0')"
      [] OTHER -> ""

(* mutant: a tag is removed when an object's name contains it or is      *)
(* contained in it                                                         *)
DedupeTagsContained(analysis) ==
    IF "objects" \in DOMAIN analysis /\ "tags" \in DOMAIN analysis
    THEN LET objectsLower == {ToLowerCase(analysis.objects[k]) : k \in DOMAIN analysis.objects}
         IN  [analysis EXCEPT !.tags =
                 SelectSeq(analysis.tags,
                           LAMBDA tag : \A o \in objectsLower :
                               /\ ~Includes(o, ToLowerCase(tag))
                               /\ ~Includes(ToLowerCase(tag), o))]
    ELSE analysis

(* tags.filter(tag => !objectsLower.includes(tag.toLowerCase())) *)
DedupeTags(analysis) ==
    IF "objects" \in DOMAIN analysis /\ "tags" \in DOMAIN analysis
    THEN LET objectsLower == {ToLowerCase(analysis.objects[k]) : k \in DOMAIN analysis.objects}
         IN  [analysis EXCEPT !.tags =
                 SelectSeq(analysis.tags, LAMBDA tag : ToLowerCase(tag) \notin objectsLower)]
    ELSE analysis

AnalyzeFrame(imagePath, files, http, content) ==
    LET parsed == JSONParse(StripFences(content))
        fail(msg) == [success |-> FALSE, path |-> imagePath,
                      analysis |-> Undefined, error |-> Some(msg)]
    IN  IF imagePath \notin files THEN fail("Image file not found: " \o imagePath)
        ELSE IF http # "ok" THEN fail(EndpointError(http))
        ELSE IF ~parsed.ok THEN fail("Failed to parse AI response as JSON")
        ELSE [success |-> TRUE, path |-> imagePath,
              analysis |-> Some(DedupeTags(parsed.value)), error |-> Undefined]

CompareFrames(frame1Path, frame2Path, files, http, content) ==
    LET parsed == JSONParse(StripFences(content))
        fail(msg) == [success |-> FALSE, frame1_path |-> frame1Path,
                      frame2_path |-> frame2Path,
                      comparison |-> Undefined, error |-> Some(msg)]
    IN  IF frame1Path \notin files \/ frame2Path \notin files
        THEN fail("One or both image files not found")
        ELSE IF http # "ok" THEN fail(EndpointError(http))
        ELSE IF ~parsed.ok THEN fail("Failed to parse AI response as JSON")
        ELSE [success |-> TRUE, frame1_path |-> frame1Path, frame2_path |-> frame2Path,
              comparison |-> Some(parsed.value), error |-> Undefined]

(* What awaiting the call gives its caller.  The body of each function is  *)
(* one try / catch that returns the failure, so the promise never rejects. *)
(* mutant: analyzeFrame lets its error escape instead of returning it *)
AwaitAnalyzeFrameRethrows(imagePath, files, http, content) ==
    LET r == AnalyzeFrame(imagePath, files, http, content)
    IN  [threw |-> ~r.success,
         message |-> IF r.success THEN "" ELSE r.error[1],
         value |-> r]

AwaitAnalyzeFrame(imagePath, files, http, content) ==
    [threw |-> FALSE, message |-> "", value |-> AnalyzeFrame(imagePath, files, http, content)]

(* mutant: compareFrames lets its error escape instead of returning it *)
AwaitCompareFramesRethrows(frame1Path, frame2Path, files, http, content) ==
    LET r == CompareFrames(frame1Path, frame2Path, files, http, content)
    IN  [threw |-> ~r.success,
         message |-> IF r.success THEN "" ELSE r.error[1],
         value |-> r]

AwaitCompareFrames(frame1Path, frame2Path, files, http, content) ==
    [threw |-> FALSE, message |-> "",
     value |-> CompareFrames(frame1Path, frame2Path, files, http, content)]

----------------------------------------------------------------------------
(* The sequential flow handler (ipcMain.handle('compare-sequential')) and  *)
(* the batch handler (ipcMain.handle('analyze-frames-batch') around        *)
(* analyzeFramesBatch).  Each await of the loop body is one step: the call *)
(* is issued, and later it resolves.  The renderer window that invoked the *)
(* handler stays open while the handler runs, so win.webContents.send      *)
(* delivers each notification.                                             *)

FlowPathPool == {"a.png", "b.jpg"}

FlowInputs == UNION {[1..n -> FlowPathPool] : n \in 0..MaxFrames}

(* what the model may answer a comparison or a single-frame request with *)
FlowContents(call) ==
    IF call = "sequential"
    THEN {CompareJson, "'''json\n" \o CompareJson \o "\n'''", "I see two frames."}
    ELSE {FrameJson, "'''\n" \o FrameJson \o "\n'''", "I see a cat."}

FlowIdle ==
    /\ flowCall = "none"
    /\ flowPaths = <<>>
    /\ flowFiles = {}
    /\ flowPc = "done"
    /\ flowI = 0
    /\ flowResults = <<>>
    /\ flowSent = <<>>
    /\ flowIssued = <<>>
    /\ flowOutcomes = <<>>
    /\ flowInFlight = {}
    /\ flowReturn = Undefined

FlowInit ==
    /\ flowCall \in {"sequential", "batch"}
    /\ flowPaths \in FlowInputs
    /\ flowFiles \in SUBSET FlowPathPool
    /\ flowPc = "called"
    /\ flowI = 0
    /\ flowResults = <<>>
    /\ flowSent = <<>>
    /\ flowIssued = <<>>
    /\ flowOutcomes = <<>>
    /\ flowInFlight = {}
    /\ flowReturn = Undefined

(* mutant: the guard lets a single frame through *)
SeqTooFewOffByOne(n) == n < 1

(* if (imagePaths.length < 2) *)
SeqTooFew(n) == n < 2

(* mutant: the loop stops one pair early *)
SeqLoopCondShort(i, n) == i < n - 2

(* for (let i = 0; i < imagePaths.length - 1; i++) *)
SeqLoopCond(i, n) == i < n - 1

(* mutant: the batch loop stops one frame early *)
BatchLoopCondShort(i, n) == i < n - 1

(* for (let i = 0; i < imagePaths.length; i++) *)
BatchLoopCond(i, n) == i < n

SeqEnter ==
    /\ UNCHANGED <<sceneVars, lmVars, appVars, runVars, pickerVars>>
    /\ flowCall = "sequential"
    /\ flowPc = "called"
    /\ IF SeqTooFew(Len(flowPaths))
       THEN /\ flowReturn' = Some([success |-> FALSE, results |-> Undefined,
                   error |-> Some("At least two frames are required for sequential analysis")])
            /\ flowPc' = "done"
       ELSE /\ flowPc' = "loop"
            /\ UNCHANGED flowReturn
    /\ UNCHANGED <<flowCall, flowPaths, flowFiles, flowI, flowResults, flowSent,
                   flowIssued, flowOutcomes, flowInFlight>>

(* the loop test holds: compareFrames(imagePaths[i], imagePaths[i + 1]) is called *)
SeqIssue ==
    /\ UNCHANGED <<sceneVars, lmVars, appVars, runVars, pickerVars>>
    /\ flowCall = "sequential"
    /\ flowPc = "loop"
    /\ SeqLoopCond(flowI, Len(flowPaths))
    /\ flowPc' = "await"
    /\ flowIssued' = Append(flowIssued, flowI)
    /\ flowInFlight' = flowInFlight \cup {flowI}
    /\ UNCHANGED <<flowCall, flowPaths, flowFiles, flowI, flowResults, flowSent,
                   flowOutcomes, flowReturn>>

(* the call resolves: the rest of the try block, or the catch block, then i++ *)
SeqResolve ==
    /\ UNCHANGED <<sceneVars, lmVars, appVars, runVars, pickerVars>>
    /\ flowCall = "sequential"
    /\ flowPc = "await"
    /\ \E http \in HttpKinds, content \in FlowContents("sequential") :
         LET frame1 == flowPaths[flowI + 1]
             frame2 == flowPaths[flowI + 2]
             got == AwaitCompareFrames(frame1, frame2, flowFiles, http, content)
             comparisonResult == got.value
         IN  /\ flowOutcomes' = Append(flowOutcomes,
                    IF got.threw THEN "threw"
                    ELSE IF comparisonResult.success THEN "success" ELSE "failure")
             /\ IF ~got.threw
                THEN /\ flowResults' = Append(flowResults,
                            [index |-> flowI, frame1 |-> frame1, frame2 |-> frame2,
                             comparison |-> comparisonResult.comparison,
                             error |-> comparisonResult.error])
                     /\ flowSent' = Append(flowSent,
                            [channel |-> "flow-analysis-progress",
                             current |-> flowI + 1,
                             total |-> Len(flowPaths) - 1,
                             result |-> [success |-> comparisonResult.success,
                                         frame1 |-> frame1, frame2 |-> frame2,
                                         comparison |-> comparisonResult.comparison,
                                         error |-> comparisonResult.error]])
                ELSE /\ flowResults' = Append(flowResults,
                            [index |-> flowI, frame1 |-> flowPaths[flowI + 1],
                             frame2 |-> flowPaths[flowI + 2],
                             comparison |-> Undefined,
                             error |-> Some(got.message)])
                     /\ UNCHANGED flowSent
    /\ flowInFlight' = flowInFlight \ {flowI}
    /\ flowI' = flowI + 1
    /\ flowPc' = "loop"
    /\ UNCHANGED <<flowCall, flowPaths, flowFiles, flowIssued, flowReturn>>

(* the loop test fails: return { success: true, results } *)
SeqReturn ==
    /\ UNCHANGED <<sceneVars, lmVars, appVars, runVars, pickerVars>>
    /\ flowCall = "sequential"
    /\ flowPc = "loop"
    /\ ~SeqLoopCond(flowI, Len(flowPaths))
    /\ flowReturn' = Some([success |-> TRUE, results |-> Some(flowResults), error |-> Undefined])
    /\ flowPc' = "done"
    /\ UNCHANGED <<flowCall, flowPaths, flowFiles, flowI, flowResults, flowSent,
                   flowIssued, flowOutcomes, flowInFlight>>

BatchEnter ==
    /\ UNCHANGED <<sceneVars, lmVars, appVars, runVars, pickerVars>>
    /\ flowCall = "batch"
    /\ flowPc = "called"
    /\ flowPc' = "loop"
    /\ UNCHANGED <<flowCall, flowPaths, flowFiles, flowI, flowResults, flowSent,
                   flowIssued, flowOutcomes, flowInFlight, flowReturn>>

BatchIssue ==
    /\ UNCHANGED <<sceneVars, lmVars, appVars, runVars, pickerVars>>
    /\ flowCall = "batch"
    /\ flowPc = "loop"
    /\ BatchLoopCond(flowI, Len(flowPaths))
    /\ flowPc' = "await"
    /\ flowIssued' = Append(flowIssued, flowI)
    /\ flowInFlight' = flowInFlight \cup {flowI}
    /\ UNCHANGED <<flowCall, flowPaths, flowFiles, flowI, flowResults, flowSent,
                   flowOutcomes, flowReturn>>

(* results.push(result); onProgress(i + 1, imagePaths.length, result); a   *)
(* rejected analyzeFrame would reject analyzeFramesBatch and the handler.  *)
BatchResolve ==
    /\ UNCHANGED <<sceneVars, lmVars, appVars, runVars, pickerVars>>
    /\ flowCall = "batch"
    /\ flowPc = "await"
    /\ \E http \in HttpKinds, content \in FlowContents("batch") :
         LET got == AwaitAnalyzeFrame(flowPaths[flowI + 1], flowFiles, http, content)
             result == got.value
         IN  /\ flowOutcomes' = Append(flowOutcomes,
                    IF got.threw THEN "threw"
                    ELSE IF result.success THEN "success" ELSE "failure")
             /\ IF ~got.threw
                THEN /\ flowResults' = Append(flowResults, result)
                     /\ flowSent' = Append(flowSent,
                            [channel |-> "analysis-progress",
                             current |-> flowI + 1,
                             total |-> Len(flowPaths),
                             result |-> result])
                     /\ flowI' = flowI + 1
                     /\ flowPc' = "loop"
                     /\ UNCHANGED flowReturn
                ELSE /\ flowReturn' = Some([rejected |-> got.message])
                     /\ flowPc' = "done"
                     /\ UNCHANGED <<flowResults, flowSent, flowI>>
    /\ flowInFlight' = flowInFlight \ {flowI}
    /\ UNCHANGED <<flowCall, flowPaths, flowFiles, flowIssued>>

BatchReturn ==
    /\ UNCHANGED <<sceneVars, lmVars, appVars, runVars, pickerVars>>
    /\ flowCall = "batch"
    /\ flowPc = "loop"
    /\ ~BatchLoopCond(flowI, Len(flowPaths))
    /\ flowReturn' = Some(flowResults)
    /\ flowPc' = "done"
    /\ UNCHANGED <<flowCall, flowPaths, flowFiles, flowI, flowResults, flowSent,
                   flowIssued, flowOutcomes, flowInFlight>>

FlowNext ==
    \/ SeqEnter
    \/ SeqIssue
    \/ SeqResolve
    \/ SeqReturn
    \/ BatchEnter
    \/ BatchIssue
    \/ BatchResolve
    \/ BatchReturn

----------------------------------------------------------------------------
(* Numbers in text, and the order of strings *)

Digits == "0123456789"

IsDigit(c) == Len(c) = 1 /\ \E d \in 0..9 : Char(Digits, d + 1) = c

DigitVal(c) == CHOOSE d \in 0..9 : Char(Digits, d + 1) = c

(* the run of digits that starts at position i: (\d+), or "" *)
RECURSIVE TakeDigits(_, _)
TakeDigits(s, i) ==
    IF i <= Len(s) /\ IsDigit(Char(s, i)) THEN Char(s, i) \o TakeDigits(s, i + 1) ELSE ""

(* the run of digits and dots that starts at position i: ([\d.]+), or "" *)
RECURSIVE TakeNumberChars(_, _)
TakeNumberChars(s, i) ==
    IF i <= Len(s) /\ (IsDigit(Char(s, i)) \/ Char(s, i) = ".")
    THEN Char(s, i) \o TakeNumberChars(s, i + 1)
    ELSE ""

(* the position after the white space that starts at position i: \s* *)
RECURSIVE SkipSpaces(_, _)
SkipSpaces(s, i) ==
    IF i <= Len(s) /\ IsSpace(Char(s, i)) THEN SkipSpaces(s, i + 1) ELSE i

(* parseInt(digits, 10) of a run of digits *)
RECURSIVE ParseInt(_)
ParseInt(digits) ==
    IF Len(digits) = 0 THEN 0
    ELSE 10 * ParseInt(SubSeq(digits, 1, Len(digits) - 1)) + DigitVal(Char(digits, Len(digits)))

(* Number values are kept in thousandths; NaN is not a number. *)
NaN == -1

PadMillis(frac) ==
    ParseInt(SubSeq(frac \o "000", 1, 3))

(* parseFloat of text made of digits and dots: the longest prefix that is  *)
(* a decimal literal (digits, one dot, digits); NaN when it has no digit.  *)
ParseFloat(text) ==
    LET int == TakeDigits(text, 1)
        afterInt == Len(int) + 1
        hasDot == afterInt <= Len(text) /\ Char(text, afterInt) = "."
        frac == IF hasDot THEN TakeDigits(text, afterInt + 1) ELSE ""
    IN  IF Len(int) = 0 /\ Len(frac) = 0 THEN NaN
        ELSE 1000 * ParseInt(int) + PadMillis(frac)

(* the characters with codes 32 to 126, in code order; the apostrophe that *)
(* stands for the backtick sits at the backtick's place                    *)
AsciiTable ==
    " !\"#$%&\t()*+,-./0123456789:;<=>?@ABCDEFGHIJKLMNOPQRSTUVWXYZ[\\]^_'abcdefghijklmnopqrstuvwxyz{|}~"

CodeTable == [c \in {Char(AsciiTable, k) : k \in 1..Len(AsciiTable)} |->
                 31 + (CHOOSE k \in 1..Len(AsciiTable) : Char(AsciiTable, k) = c)]

CharCode(c) == CodeTable[c]

(* a < b in the order Array.prototype.sort() uses without a comparator:    *)
(* by code units, a proper prefix first                                    *)
RECURSIVE StringLess(_, _)
StringLess(a, b) ==
    IF Len(b) = 0 THEN FALSE
    ELSE IF Len(a) = 0 THEN TRUE
    ELSE IF Char(a, 1) = Char(b, 1)
         THEN StringLess(SubSeq(a, 2, Len(a)), SubSeq(b, 2, Len(b)))
         ELSE CharCode(Char(a, 1)) < CharCode(Char(b, 1))

RECURSIVE InsertSorted(_, _)
InsertSorted(x, sorted) ==
    IF Len(sorted) = 0 THEN <<x>>
    ELSE IF StringLess(x, sorted[1]) THEN <<x>> \o sorted
    ELSE <<sorted[1]>> \o InsertSorted(x, Tail(sorted))

(* [...array].sort() *)
RECURSIVE SortStrings(_)
SortStrings(array) ==
    IF Len(array) = 0 THEN <<>>
    ELSE InsertSorted(array[1], SortStrings(Tail(array)))

(* some enumeration of a set, as fs.readdirSync may return the names *)
RECURSIVE SetToSeq(_)
SetToSeq(S) ==
    IF S = {} THEN <<>>
    ELSE LET x == CHOOSE y \in S : TRUE IN <<x>> \o SetToSeq(S \ {x})

(* String(n) of a natural number *)
RECURSIVE NatToString(_)
NatToString(n) ==
    IF n < 10 THEN Char(Digits, n + 1)
    ELSE NatToString(n \div 10) \o Char(Digits, (n % 10) + 1)

----------------------------------------------------------------------------
(* electron/ffmpeg.ts: extractSceneChanges.  ffmpeg writes its log to      *)
(* stderr; Node delivers it to the 'data' listener in chunks whose         *)
(* boundaries it chooses, then 'close' fires with the exit code.           *)

OutputDir == "/v.mp4_extracted"

ScenePtsTimes == {0, 40, 12500}

(* the frames ffmpeg selects: n counts from 0, times increase, and         *)
(* pts = pts_time / time_base with a time base of 1/2000                   *)
SceneRuns ==
    {run \in UNION {[1..k -> ScenePtsTimes] : k \in 0..MaxLines} :
        \A i \in 1..(Len(run) - 1) : run[i] < run[i + 1]}

SceneLine(i, time) == [frame |-> i - 1, pts |-> 2 * time, time |-> time]

(* a time in thousandths as ffmpeg prints it: 0, 0.04, 12.5 *)
RECURSIVE StripTrailingZeros(_)
StripTrailingZeros(digits) ==
    IF Len(digits) > 0 /\ Char(digits, Len(digits)) = "0"
    THEN StripTrailingZeros(SubSeq(digits, 1, Len(digits) - 1))
    ELSE digits

FormatTime(time) ==
    LET frac == time % 1000
        padded == (IF frac < 10 THEN "00" ELSE IF frac < 100 THEN "0" ELSE "")
                  \o NatToString(frac)
    IN  NatToString(time \div 1000)
        \o (IF frac = 0 THEN "" ELSE "." \o StripTrailingZeros(padded))

(* one line of the showinfo filter *)
ShowinfoText(line) ==
    "[Parsed_showinfo_1 @ 0x1] n: " \o NatToString(line.frame)
    \o " pts: " \o NatToString(line.pts)
    \o " pts_time:" \o FormatTime(line.time) \o " fmt:rgb\n"

RECURSIVE ShowinfoLines(_, _)
ShowinfoLines(lines, i) ==
    IF i > Len(lines) THEN ""
    ELSE ShowinfoText(lines[i]) \o ShowinfoLines(lines, i + 1)

StderrText(lines) == "Input #0\n" \o ShowinfoLines(lines, 1)

(* line.match(/<key>\s*(\d+)/): the digits of the leftmost match, "" for null *)
RECURSIVE MatchKeyDigits(_, _, _)
MatchKeyDigits(line, p, key) ==
    IF p > Len(line) THEN ""
    ELSE IF StartsWithAt(line, p, key)
            /\ TakeDigits(line, SkipSpaces(line, p + Len(key))) # ""
         THEN TakeDigits(line, SkipSpaces(line, p + Len(key)))
         ELSE MatchKeyDigits(line, p + 1, key)

(* line.match(/<key>([\d.]+)/) *)
RECURSIVE MatchKeyNumber(_, _, _)
MatchKeyNumber(line, p, key) ==
    IF p > Len(line) THEN ""
    ELSE IF StartsWithAt(line, p, key) /\ TakeNumberChars(line, p + Len(key)) # ""
         THEN TakeNumberChars(line, p + Len(key))
         ELSE MatchKeyNumber(line, p + 1, key)

(* the body of the for loop over the lines of one chunk *)
ParseLine(records, line) ==
    LET nMatch == MatchKeyDigits(line, 1, "n:")
        ptsMatch == MatchKeyDigits(line, 1, "pts:")
        timeMatch == MatchKeyNumber(line, 1, "pts_time:")
    IN  IF Includes(line, "[Parsed_showinfo")
           /\ nMatch # "" /\ ptsMatch # "" /\ timeMatch # ""
        THEN Append(records, [path |-> "",
                             frame |-> ParseInt(nMatch),
                             pts |-> ParseInt(ptsMatch),
                             time |-> ParseFloat(timeMatch)])
        ELSE records

(* the position of the next line break at or after i, Len + 1 when none *)
RECURSIVE LineEnd(_, _)
LineEnd(text, i) ==
    IF i > Len(text) \/ Char(text, i) = "\n" THEN i ELSE LineEnd(text, i + 1)

(* for (const line of data.toString().split('\n')) ... *)
RECURSIVE ParseChunk(_, _, _)
ParseChunk(records, chunk, i) ==
    LET e == LineEnd(chunk, i)
        after == ParseLine(records, SubSeq(chunk, i, e - 1))
    IN  IF e > Len(chunk) THEN after ELSE ParseChunk(after, chunk, e + 1)

StartsWith(s, pat) == StartsWithAt(s, 1, pat)

EndsWith(s, pat) == Len(s) >= Len(pat) /\ StartsWithAt(s, Len(s) - Len(pat) + 1, pat)

(* path.join(outputDir, f) *)
PathJoin(dir, f) == dir \o "/" \o f

(* fs.readdirSync(outputDir).filter(...).sort() *)
SceneFiles(dir) ==
    SortStrings(SetToSeq({f \in dir : StartsWith(f, "scene_") /\ EndsWith(f, ".png")}))

(* mutant: the records without a file are kept, with an empty path *)
ZipFramesWithFilesKeepsAll(records, files) ==
    [i \in 1..Len(records) |->
        [records[i] EXCEPT !.path =
            IF i <= Len(files) /\ files[i] # ""
            THEN PathJoin(OutputDir, files[i]) ELSE ""]]

(* frames.map((f, i) => ({...f, path: files[i] ? join : ''})).filter(f => f.path !== '') *)
ZipFramesWithFiles(records, files) ==
    LET mapped == [i \in 1..Len(records) |->
                     [records[i] EXCEPT !.path =
                         IF i <= Len(files) /\ files[i] # ""
                         THEN PathJoin(OutputDir, files[i]) ELSE ""]]
    IN  SelectSeq(mapped, LAMBDA f : f.path # "")

(* ipcMain.handle('extract-scene-changes', ...): return await              *)
(* extractSceneChanges(...), with no try / catch: what invoking the        *)
(* channel gives its caller when the promise has settled                   *)
InvokeExtractSceneChanges(settled) ==
    IF "rejected" \in DOMAIN settled
    THEN [threw |-> TRUE, message |-> settled.rejected, value |-> Undefined]
    ELSE [threw |-> FALSE, message |-> "", value |-> Some(settled.resolved)]

(* mutant: the close handler resolves whatever the exit code *)
ExitSucceededAlways(code) == TRUE

(* if (code === 0) *)
ExitSucceeded(code) == code = 0

(* fs.readdirSync(outputDir).filter(...).sort() of extractKeyframes *)
KeyframeFiles(dir) ==
    SortStrings(SetToSeq({f \in dir : StartsWith(f, "key_") /\ EndsWith(f, ".png")}))

(* extractKeyframes: how proc.on('close', code) settles the promise *)
ExtractKeyframesSettled(code, dir) ==
    IF ExitSucceeded(code)
    THEN [resolved |-> [i \in 1..Len(KeyframeFiles(dir)) |->
                           PathJoin(OutputDir, KeyframeFiles(dir)[i])]]
    ELSE [rejected |-> "FFmpeg exited with code " \o NatToString(code)]

SceneDirPool == {"scene_0001.png", "scene_0002.png", "scene_0010.png",
                 "key_0001.png", "story_timeline.json"}

SceneIdle ==
    /\ scLines = <<>>
    /\ scStream = ""
    /\ scPos = 0
    /\ scAligned = TRUE
    /\ scFrames = <<>>
    /\ scPc = "idle"
    /\ scDir = {}
    /\ scExit = 0
    /\ scResult = Undefined

SceneInit ==
    /\ \E run \in SceneRuns :
         /\ scLines = [i \in 1..Len(run) |-> SceneLine(i, run[i])]
         /\ scStream = StderrText([i \in 1..Len(run) |-> SceneLine(i, run[i])])
    /\ scPos = 0
    /\ scAligned = TRUE
    /\ scFrames = <<>>
    /\ scPc = "running"
    /\ scDir = {}
    /\ scExit = 0
    /\ scResult = Undefined

(* proc.stderr.on('data', ...): the next chunk arrives *)
SceneData ==
    /\ scPc = "running"
    /\ \E end \in (scPos + 1)..Len(scStream) :
         /\ scFrames' = ParseChunk(scFrames, SubSeq(scStream, scPos + 1, end), 1)
         /\ scPos' = end
         /\ scAligned' = (scAligned /\ Char(scStream, end) = "\n")
    /\ UNCHANGED <<scLines, scStream, scPc, scDir, scExit, scResult>>
    /\ UNCHANGED <<flowVars, lmVars, appVars, runVars, pickerVars>>

(* proc.on('close', code): stderr has ended, the directory is what it is *)
SceneClose ==
    /\ scPc = "running"
    /\ scPos = Len(scStream)
    /\ \E code \in {0, 1}, dir \in SUBSET SceneDirPool :
         /\ scExit' = code
         /\ scDir' = dir
         /\ scResult' = IF ExitSucceeded(code)
                        THEN Some([resolved |-> ZipFramesWithFiles(scFrames, SceneFiles(dir))])
                        ELSE Some([rejected |-> "FFmpeg exited with code " \o NatToString(code)])
    /\ scPc' = "closed"
    /\ UNCHANGED <<scLines, scStream, scPos, scAligned, scFrames>>
    /\ UNCHANGED <<flowVars, lmVars, appVars, runVars, pickerVars>>

(* proc.on('error', err): the process could not be spawned *)
SceneSpawnError ==
    /\ scPc = "running"
    /\ scPos = 0
    /\ scResult' = Some([rejected |-> "spawn ffmpeg ENOENT"])
    /\ scPc' = "failed"
    /\ UNCHANGED <<scLines, scStream, scPos, scAligned, scFrames, scDir, scExit>>
    /\ UNCHANGED <<flowVars, lmVars, appVars, runVars, pickerVars>>

SceneNext ==
    \/ SceneData
    \/ SceneClose
    \/ SceneSpawnError

----------------------------------------------------------------------------
(* electron/lmstudio.ts: analyzeSequence and the scene identity *)

HexDigits == "0123456789abcdef"

RECURSIVE Hex(_, _)
Hex(n, width) ==
    IF width = 0 THEN ""
    ELSE Hex(n \div 16, width - 1) \o Char(HexDigits, (n % 16) + 1)

(* the digest's 16-bit state after the characters at positions i to j have *)
(* entered it, in order; h is never negative, and the test on it has the   *)
(* state computed before the next characters are read                      *)
RECURSIVE DigestWord(_, _, _, _)
DigestWord(text, i, j, h) ==
    IF i > j \/ h < 0 THEN h
    ELSE IF i = j THEN (h * 31 + CharCode(Char(text, i))) % 65536
    ELSE DigestWord(text, (i + j) \div 2 + 1, j, DigestWord(text, i, (i + j) \div 2, h))

(* the output words, each mixed from the one before *)
RECURSIVE DigestHex(_, _)
DigestHex(h, words) ==
    IF words = 0 THEN ""
    ELSE Hex(h, 4) \o DigestHex((h * 75 + 74) % 65536, words - 1)

(* crypto.createHash('md5').update(text).digest('hex'): 32 hexadecimal     *)
(* digits that are a function of the text and of nothing else; the digest  *)
(* here is a short stand-in for MD5 with that shape                        *)
Md5Hex(text) == DigestHex(DigestWord(text, 1, Len(text), 7), 8)

(* array.join(sep) *)
RECURSIVE Join(_, _)
Join(array, sep) ==
    IF Len(array) = 0 THEN ""
    ELSE IF Len(array) = 1 THEN array[1]
    ELSE array[1] \o sep \o Join(Tail(array), sep)

(* mutant: the paths are hashed in the order given *)
SortedPathsAsGiven(framePaths) == framePaths

(* const sortedPaths = [...framePaths].sort() *)
SortedPaths(framePaths) == SortStrings(framePaths)

(* the text that is hashed *)
SceneKey(framePaths) == Join(SortedPaths(framePaths), ",")

(* 'scene_' + hash.substring(0, 12) *)
SceneId(framePaths) == "scene_" \o SubSeq(Md5Hex(SceneKey(framePaths)), 1, 12)

(* String(error) of what the try block threw *)
SequenceEndpointError(http) ==
    CASE http = "refused" -> "TypeError: fetch failed"
      [] http = "status500" -> "Error: LM Studio API Error: 500"
      [] http = "garbled" -> "TypeError: Cannot read properties of undefined (reading '0')"
      [] OTHER -> ""

(* mutant: the scene_id of the model's answer is kept *)
AnalyzeSequenceKeepsModelId(framePaths, files, http, content) ==
    LET parsed == JSONParse(StripFencesSequence(content))
        fail(msg) == [success |-> FALSE, analysis |-> Undefined, error |-> Some(msg)]
        missing == {k \in 1..Len(framePaths) : framePaths[k] \notin files}
        firstMissing == CHOOSE k \in missing : \A j \in missing : k <= j
    IN  IF Len(framePaths) < 2 THEN fail("Sequence analysis requires at least 2 frames.")
        ELSE IF missing # {} THEN fail("Error: File not found: " \o framePaths[firstMissing])
        ELSE IF http # "ok" THEN fail(SequenceEndpointError(http))
        ELSE IF ~parsed.ok THEN fail("SyntaxError: Unexpected token in JSON")
        ELSE [success |-> TRUE, analysis |-> Some(parsed.value), error |-> Undefined]

(* analyzeSequence(framePaths): what the call resolves to *)
AnalyzeSequence(framePaths, files, http, content) ==
    LET parsed == JSONParse(StripFencesSequence(content))
        fail(msg) == [success |-> FALSE, analysis |-> Undefined, error |-> Some(msg)]
        missing == {k \in 1..Len(framePaths) : framePaths[k] \notin files}
        firstMissing == CHOOSE k \in missing : \A j \in missing : k <= j
    IN  IF Len(framePaths) < 2 THEN fail("Sequence analysis requires at least 2 frames.")
        ELSE IF missing # {} THEN fail("Error: File not found: " \o framePaths[firstMissing])
        ELSE IF http # "ok" THEN fail(SequenceEndpointError(http))
        ELSE IF ~parsed.ok THEN fail("SyntaxError: Unexpected token in JSON")
        ELSE [success |-> TRUE,
              analysis |-> Some([parsed.value EXCEPT !.scene_id = SceneId(framePaths)]),
              error |-> Undefined]


(* The MIME type each request gives the images it embeds. *)

(* the position of the last occurrence of the character c in s, 0 for none *)
RECURSIVE LastIndexOf(_, _, _)
LastIndexOf(s, c, i) ==
    IF i = 0 THEN 0 ELSE IF Char(s, i) = c THEN i ELSE LastIndexOf(s, c, i - 1)

(* path.basename *)
BaseName(imagePath) ==
    SubSeq(imagePath, LastIndexOf(imagePath, "/", Len(imagePath)) + 1, Len(imagePath))

(* path.extname: from the last '.' of the base name to its end, "" when    *)
(* there is none or when the name only starts with it                      *)
ExtName(imagePath) ==
    LET base == BaseName(imagePath)
        dot == LastIndexOf(base, ".", Len(base))
    IN  IF dot <= 1 THEN "" ELSE SubSeq(base, dot, Len(base))

(* getMimeType(filePath): mimeTypes[ext] || 'image/png' *)
GetMimeType(imagePath) ==
    LET ext == ToLowerCase(ExtName(imagePath))
    IN  CASE ext = ".png" -> "image/png"
          [] ext = ".jpg" -> "image/jpeg"
          [] ext = ".jpeg" -> "image/jpeg"
          [] ext = ".gif" -> "image/gif"
          [] ext = ".webp" -> "image/webp"
          [] ext = ".bmp" -> "image/bmp"
          [] OTHER -> "image/png"

(* analyzeSequence: dims = fp.split('.'); ext = dims[dims.length - 1];     *)
(* mime = ext === 'png' ? 'image/png' : 'image/jpeg'                       *)
SequenceMimeType(fp) ==
    LET ext == SubSeq(fp, LastIndexOf(fp, ".", Len(fp)) + 1, Len(fp))
    IN  IF ext = "png" THEN "image/png" ELSE "image/jpeg"

(* the data: URLs of one request; analyzeSequence returns before it builds *)
(* any when it is given fewer than 2 frames                                *)
RequestMimes(call, paths) ==
    IF call = "analyzeSequence"
    THEN IF Len(paths) < 2 THEN <<>>
         ELSE [i \in 1..Len(paths) |-> SequenceMimeType(paths[i])]
    ELSE [i \in 1..Len(paths) |-> GetMimeType(paths[i])]

(* The calls of the analysis client, one at a time. *)

LmPathPool == {"b.png", "a.png", "a.png,b.png", "b.png,b.png"}

(* every list of at most MaxPaths paths *)
SequenceInputs == UNION {[1..n -> LmPathPool] : n \in 0..MaxPaths}

(* a leading fence, with the json language tag or without a tag; "" is no fence *)
FenceOpens == {"", "'''json\n", "'''\n", "'''json"}

(* a trailing fence *)
FenceCloses == {"", "\n'''", "\n'''\n"}

LmBodies(call) ==
    CASE call = "analyzeFrame" -> {FrameJson, SceneJson, "I see a cat."}
      [] call = "compareFrames" -> {CompareJson, SceneJson, "I see two frames."}
      [] OTHER -> {SceneJson, SceneJsonB, "I see a story."}

(* result.choices[0].message.content *)
LmContent(open, body, close) == open \o body \o close

LmNoCallYet ==
    /\ lmCall = "none"
    /\ lmPaths = <<>>
    /\ lmHttp = "ok"
    /\ lmOpen = ""
    /\ lmBody = ""
    /\ lmClose = ""
    /\ lmResult = Undefined
    /\ lmMimes = <<>>
    /\ lmPrevPaths = <<>>
    /\ lmPrevResult = Undefined

LmIdle == lmRequests = <<>> /\ LmNoCallYet

(* two narrative requests are waiting, each with any frame paths *)
LmRequested == lmRequests \in SequenceInputs \X SequenceInputs /\ LmNoCallYet

LmCallMade(call, paths, http, open, body, close, result) ==
    /\ lmCall' = call
    /\ lmPaths' = paths
    /\ lmHttp' = http
    /\ lmOpen' = open
    /\ lmBody' = body
    /\ lmClose' = close
    /\ lmResult' = Some(result)
    /\ lmMimes' = RequestMimes(call, paths)
    /\ UNCHANGED <<flowVars, sceneVars, appVars, runVars, pickerVars>>

(* analyzeSequence(framePaths), for any frame paths and any answer of the *)
(* endpoint                                                               *)
SequenceCall ==
    /\ lmRequests # <<>>
    /\ \E http \in HttpKinds :
         \E body \in (IF http = "ok" THEN {SceneJson, SceneJsonB} ELSE {""}) :
           LmCallMade("analyzeSequence", Head(lmRequests), http, "", body, "",
                      AnalyzeSequence(Head(lmRequests), LmPathPool, http, body))
    /\ lmRequests' = Tail(lmRequests)
    /\ lmPrevPaths' = lmPaths
    /\ lmPrevResult' = lmResult

(* the three parsers on a response that may be fenced, the images at hand *)
FrameResponse ==
    \E http \in HttpKinds :
      \E open \in (IF http = "ok" THEN FenceOpens ELSE {""}),
         body \in (IF http = "ok" THEN LmBodies("analyzeFrame") ELSE {""}),
         close \in (IF http = "ok" THEN FenceCloses ELSE {""}) :
        /\ LmCallMade("analyzeFrame", <<"a.png">>, http, open, body, close,
                      AnalyzeFrame("a.png", LmPathPool, http, LmContent(open, body, close)))
        /\ UNCHANGED <<lmRequests, lmPrevPaths, lmPrevResult>>

CompareResponse ==
    \E http \in HttpKinds :
      \E open \in (IF http = "ok" THEN FenceOpens ELSE {""}),
         body \in (IF http = "ok" THEN LmBodies("compareFrames") ELSE {""}),
         close \in (IF http = "ok" THEN FenceCloses ELSE {""}) :
        /\ LmCallMade("compareFrames", <<"a.png", "b.png">>, http, open, body, close,
                      CompareFrames("a.png", "b.png", LmPathPool, http,
                                    LmContent(open, body, close)))
        /\ UNCHANGED <<lmRequests, lmPrevPaths, lmPrevResult>>

SequenceResponse ==
    \E http \in HttpKinds :
      \E open \in (IF http = "ok" THEN FenceOpens ELSE {""}),
         body \in (IF http = "ok" THEN LmBodies("analyzeSequence") ELSE {""}),
         close \in (IF http = "ok" THEN FenceCloses ELSE {""}) :
        /\ LmCallMade("analyzeSequence", <<"a.png", "b.png">>, http, open, body, close,
                      AnalyzeSequence(<<"a.png", "b.png">>, LmPathPool, http,
                                      LmContent(open, body, close)))
        /\ UNCHANGED <<lmRequests, lmPrevPaths, lmPrevResult>>

IdentityNext == SequenceCall

ParseNext ==
    \/ FrameResponse
    \/ CompareResponse
    \/ SequenceResponse

(* the first call of analyzeFrame, on an answer with any objects and tags *)
TagsResponse ==
    /\ lmCall = "none"
    /\ \E doc \in FrameDocs :
         LmCallMade("analyzeFrame", <<"a.png">>, "ok", "", doc[1], "",
                    AnalyzeFrame("a.png", LmPathPool, "ok", doc[1]))
    /\ UNCHANGED <<lmRequests, lmPrevPaths, lmPrevResult>>

TagsNext == TagsResponse

(* the image files a request can name: every extension of the table, one   *)
(* in capitals, one outside the table, a name without an extension and a   *)
(* name that only starts with a dot                                        *)
MimePathPool == {"a.png", "a.PNG", "a.jpg", "a.jpeg", "a.gif", "a.webp", "a.bmp",
                 "a.tif", "notes", ".png"}

(* the first call of the client, in any of the three request shapes *)
MimeFrameRequest ==
    /\ lmCall = "none"
    /\ \E imagePath \in MimePathPool :
         LmCallMade("analyzeFrame", <<imagePath>>, "ok", "", FrameJson, "",
                    AnalyzeFrame(imagePath, MimePathPool, "ok", FrameJson))
    /\ UNCHANGED <<lmRequests, lmPrevPaths, lmPrevResult>>

MimeCompareRequest ==
    /\ lmCall = "none"
    /\ \E frame1Path \in MimePathPool, frame2Path \in MimePathPool :
         LmCallMade("compareFrames", <<frame1Path, frame2Path>>, "ok", "", CompareJson, "",
                    CompareFrames(frame1Path, frame2Path, MimePathPool, "ok", CompareJson))
    /\ UNCHANGED <<lmRequests, lmPrevPaths, lmPrevResult>>

MimeSequenceRequest ==
    /\ lmCall = "none"
    /\ \E framePaths \in UNION {[1..n -> MimePathPool] : n \in 2..MaxPaths} :
         LmCallMade("analyzeSequence", framePaths, "ok", "", SceneJson, "",
                    AnalyzeSequence(framePaths, MimePathPool, "ok", SceneJson))
    /\ UNCHANGED <<lmRequests, lmPrevPaths, lmPrevResult>>

MimeNext ==
    \/ MimeFrameRequest
    \/ MimeCompareRequest
    \/ MimeSequenceRequest

----------------------------------------------------------------------------
(* The renderer: App (App.tsx) and the StoryboardView it renders.          *)
(* A handler runs to completion, React renders, and the effects whose      *)
(* dependencies changed run, before the next event is handled: each action *)
(* below is a handler together with those effects.  The storyboard view    *)
(* is an overlay over the whole window: while it is open the controls      *)
(* under it cannot be clicked.                                             *)

VideoPool == {"a.mp4", "b.mp4"}

(* const outputDir = filePath + '_extracted' *)
OutputDirOf(path) == path \o "_extracted"

FramePath(video, i) == PathJoin(OutputDirOf(video), NatToString(i) \o ".png")

(* the frame lists an extraction run of a video can end with: the paths    *)
(* the extractor wrote, in the order handleRunExtraction leaves them       *)
ExtractionOutcomes(video) ==
    LET count == IF video = "a.mp4" THEN MaxFrames ELSE MaxFrames - 2
    IN  {[i \in 1..count |-> [path |-> FramePath(video, i), frame |-> i]]}

(* the image files on disk *)
AppFiles == {FramePath(video, i) : video \in VideoPool, i \in 1..MaxFrames}

(* the set as a list in increasing order: Array.from(set).sort((a, b) => a - b) *)
RECURSIVE SortedIndices(_)
SortedIndices(S) ==
    IF S = {} THEN <<>>
    ELSE LET least == CHOOSE x \in S : \A y \in S : x <= y
         IN  <<least>> \o SortedIndices(S \ {least})

(* the selections of two or more frames the grid can hold *)
AppSelections ==
    {[k \in 1..Cardinality(S) |-> list[SortedIndices(S)[k]].path] :
        <<list, S>> \in {<<l, T>> \in (UNION {ExtractionOutcomes(v) : v \in VideoPool})
                                       \X SUBSET (1..MaxFrames) :
                            T \subseteq DOMAIN l /\ Cardinality(T) >= 2}}

(* SceneId and AnalyzeSequence over the requests the window can send,      *)
(* computed once                                                           *)
SceneIdTable == [p \in AppSelections |-> SceneId(p)] @@ <<>>

StoryAnswerTable ==
    [in \in AppSelections \X {"ok", "status500"} \X {SceneJson, SceneJsonB} |->
        AnalyzeSequence(in[1], AppFiles, in[2], in[3])] @@ <<>>

(* frames[idx] for idx from 0 is defined *)
HasFrame(idx) == idx + 1 <= Len(frames)

(* Array.from(selectedIndices).sort(...).map(idx => frames[idx].path) *)
SelectedPaths ==
    LET order == SortedIndices(selectedIndices)
    IN  [k \in 1..Len(order) |-> frames[order[k] + 1].path]

(* mutant: the cache never counts as valid *)
IsCacheValidNever(cached, selectedPaths) == FALSE

(* cachedAnalysis && cachedAnalysis.frames &&                              *)
(*   JSON.stringify(cachedAnalysis.frames) === JSON.stringify(selectedPaths) *)
IsCacheValid(cached, selectedPaths) ==
    /\ cached # Undefined
    /\ cached[1].frames = selectedPaths

(* the effect with dependencies [storyTimeline, filePath]: what it sends   *)
(* when it runs with these values                                          *)
SaveTimelineEffect(path, timeline) ==
    IF path # "" /\ Len(timeline) > 0
    THEN <<[channel |-> "saveStoryTimeline", outputDir |-> OutputDirOf(path),
            timeline |-> timeline]>>
    ELSE <<>>

AnalyzeRequest(framePaths) ==
    [channel |-> "analyzeStorySequence", framePaths |-> framePaths]

AppIdle ==
    /\ filePath = ""
    /\ frames = <<>>
    /\ selectedIndices = {}
    /\ isProcessing = FALSE
    /\ extractionFor = ""
    /\ storyboardOpen = FALSE
    /\ storyboardFrames = <<>>
    /\ storyTimeline = <<>>
    /\ cachedAnalysis = Undefined
    /\ sbAnalysis = Undefined
    /\ sbLoading = FALSE
    /\ sbError = Undefined
    /\ pendingStory = <<>>
    /\ ipcSent = <<>>
    /\ consoleLog = <<>>

(* the window as it opens: no video selected *)
AppInit == AppIdle

AppRest == <<flowVars, sceneVars, lmVars, runVars, pickerVars>>


(* StoryboardView's effect with dependencies [isOpen, framePaths,          *)
(* initialAnalysis], run with these values on the view state sb: the new   *)
(* view state, and the narrative requests analyzeStory() sends             *)
StoryboardEffect(isOpen, framePaths, initialAnalysis, sb) ==
    IF isOpen
    THEN IF initialAnalysis # Undefined
         THEN [analysis |-> initialAnalysis, loading |-> FALSE, error |-> Undefined,
               requests |-> <<>>, log |-> <<>>]
         ELSE IF Len(framePaths) > 0
         THEN [analysis |-> Undefined, loading |-> TRUE, error |-> Undefined,
               requests |-> <<framePaths>>,
               log |-> <<"Starting analysis for frames:">>]
         ELSE [sb EXCEPT !.requests = <<>>, !.log = <<>>]
    ELSE [sb EXCEPT !.loading = FALSE, !.requests = <<>>, !.log = <<>>]

(* the state of the mounted StoryboardView *)
ViewState ==
    [analysis |-> sbAnalysis, loading |-> sbLoading, error |-> sbError,
     requests |-> <<>>, log |-> <<>>]

(* useState's initial values: a StoryboardView that has just mounted *)
FreshView ==
    [analysis |-> Undefined, loading |-> FALSE, error |-> Undefined,
     requests |-> <<>>, log |-> <<>>]

ViewBecomes(view) ==
    /\ sbAnalysis' = view.analysis
    /\ sbLoading' = view.loading
    /\ sbError' = view.error
    /\ pendingStory' = pendingStory \o
           [k \in 1..Len(view.requests) |-> [framePaths |-> view.requests[k], alive |-> TRUE]]

RequestsSent(view) ==
    [k \in 1..Len(view.requests) |-> AnalyzeRequest(view.requests[k])]

(* prev.findIndex(s => s.scene_id === analysis.scene_id), from 1; 0 for -1 *)
FindIndex(prev, sceneId) ==
    IF \E k \in 1..Len(prev) : prev[k].scene_id = sceneId
    THEN CHOOSE k \in 1..Len(prev) :
            /\ prev[k].scene_id = sceneId
            /\ \A j \in 1..(k - 1) : prev[j].scene_id # sceneId
    ELSE 0

(* mutant: the scene found at the head of the timeline counts as not found *)
MergeIntoTimelineMissesHead(prev, analysis) ==
    IF FindIndex(prev, analysis.scene_id) > 1
    THEN [prev EXCEPT ![FindIndex(prev, analysis.scene_id)] = analysis]
    ELSE Append(prev, analysis)

(* mutant: a result whose scene is in the timeline is appended all the same *)
MergeIntoTimelineAppends(prev, analysis) == Append(prev, analysis)

(* the updater handleAnalysisComplete gives setStoryTimeline *)
MergeIntoTimeline(prev, analysis) ==
    IF FindIndex(prev, analysis.scene_id) # 0
    THEN [prev EXCEPT ![FindIndex(prev, analysis.scene_id)] = analysis]
    ELSE Append(prev, analysis)

(* prev.filter((_, i) => i !== index), index from 0 *)
RemoveAt(prev, index) ==
    [k \in 1..(Len(prev) - 1) |-> IF k <= index THEN prev[k] ELSE prev[k + 1]]

(* FilePicker: onFileSelected(path) -> handleFileSelect; the view mounts *)
HandleFileSelect ==
    /\ filePath = ""
    /\ \E path \in VideoPool :
         /\ filePath' = path
         /\ ipcSent' = SaveTimelineEffect(path, storyTimeline)
                       \o RequestsSent(StoryboardEffect(storyboardOpen, storyboardFrames,
                                                        cachedAnalysis, FreshView))
    /\ frames' = <<>>
    /\ ViewBecomes(StoryboardEffect(storyboardOpen, storyboardFrames, cachedAnalysis, FreshView))
    /\ consoleLog' = StoryboardEffect(storyboardOpen, storyboardFrames,
                                      cachedAnalysis, FreshView).log
    /\ UNCHANGED <<selectedIndices, isProcessing, extractionFor, storyboardOpen,
                   storyboardFrames, storyTimeline, cachedAnalysis>>
    /\ UNCHANGED AppRest

(* the Change Video button; the view unmounts *)
ChangeVideo ==
    /\ filePath # ""
    /\ ~storyboardOpen
    /\ filePath' = ""
    /\ frames' = <<>>
    /\ sbAnalysis' = Undefined
    /\ sbLoading' = FALSE
    /\ sbError' = Undefined
    /\ pendingStory' = [k \in 1..Len(pendingStory) |-> [pendingStory[k] EXCEPT !.alive = FALSE]]
    /\ ipcSent' = SaveTimelineEffect("", storyTimeline)
    /\ consoleLog' = <<>>
    /\ UNCHANGED <<selectedIndices, isProcessing, extractionFor, storyboardOpen,
                   storyboardFrames, storyTimeline, cachedAnalysis>>
    /\ UNCHANGED AppRest


(* Run Extraction: the button calls handleRunExtraction with the click     *)
(* event as forceNew, which is truthy, so the existing-frames check is     *)
(* skipped and the run starts; the handler then waits for the extractors   *)
HandleRunExtraction ==
    /\ filePath # ""
    /\ ~storyboardOpen
    /\ ~isProcessing
    /\ isProcessing' = TRUE
    /\ extractionFor' = filePath
    /\ frames' = <<>>
    /\ ipcSent' = <<[channel |-> "extract", outputDir |-> OutputDirOf(filePath)]>>
    /\ consoleLog' = <<"Extracting...">>
    /\ UNCHANGED <<filePath, selectedIndices, storyboardOpen, storyboardFrames,
                   storyTimeline, cachedAnalysis, sbAnalysis, sbLoading, sbError,
                   pendingStory>>
    /\ UNCHANGED AppRest

(* the extractors have answered: setFrames(newFrames), or the catch block, *)
(* then finally setIsProcessing(false)                                     *)
RunExtractionSettles ==
    /\ isProcessing
    /\ \/ /\ \E newFrames \in ExtractionOutcomes(extractionFor) : frames' = newFrames
          /\ consoleLog' = <<>>
       \/ /\ frames' = frames
          /\ consoleLog' = <<"Extraction failed">>
    /\ isProcessing' = FALSE
    /\ extractionFor' = ""
    /\ ipcSent' = <<>>
    /\ UNCHANGED <<filePath, selectedIndices, storyboardOpen, storyboardFrames,
                   storyTimeline, cachedAnalysis, sbAnalysis, sbLoading, sbError,
                   pendingStory>>
    /\ UNCHANGED AppRest

(* the thumbnail grid is on screen and can be clicked *)
GridShown == filePath # "" /\ ~storyboardOpen /\ Len(frames) > 0

Max(S) == CHOOSE x \in S : \A y \in S : y <= x

(* ThumbnailGrid handleFrameClick(index, event) -> setSelectedIndices *)
HandleFrameClick ==
    /\ GridShown
    /\ \E index \in 0..(Len(frames) - 1), key \in {"ctrl", "shift", "none"} :
         selectedIndices' =
            IF key = "ctrl"
            THEN IF index \in selectedIndices
                 THEN selectedIndices \ {index}
                 ELSE selectedIndices \cup {index}
            ELSE IF key = "shift" /\ selectedIndices # {}
            THEN LET lastSelected == Max(selectedIndices)
                 IN  selectedIndices \cup
                     (IF lastSelected < index THEN lastSelected..index ELSE index..lastSelected)
            ELSE {index}
    /\ ipcSent' = <<>>
    /\ consoleLog' = <<>>
    /\ UNCHANGED <<filePath, frames, isProcessing, extractionFor, storyboardOpen,
                   storyboardFrames, storyTimeline, cachedAnalysis, sbAnalysis,
                   sbLoading, sbError, pendingStory>>
    /\ UNCHANGED AppRest

(* ThumbnailGrid handleSelectAll *)
HandleSelectAll ==
    /\ GridShown
    /\ selectedIndices' =
          IF Cardinality(selectedIndices) = Len(frames) THEN {} ELSE 0..(Len(frames) - 1)
    /\ ipcSent' = <<>>
    /\ consoleLog' = <<>>
    /\ UNCHANGED <<filePath, frames, isProcessing, extractionFor, storyboardOpen,
                   storyboardFrames, storyTimeline, cachedAnalysis, sbAnalysis,
                   sbLoading, sbError, pendingStory>>
    /\ UNCHANGED AppRest

(* the scenes of the timeline and of the requests in flight *)
KnownScenes ==
    {storyTimeline[k].scene_id : k \in 1..Len(storyTimeline)}
    \cup {SceneIdTable[pendingStory[k].framePaths] : k \in 1..Len(pendingStory)}

(* the caps of the model: a request for these frames may still be sent *)
RequestAllowed(framePaths) ==
    /\ Len(pendingStory) < MaxPending
    /\ Cardinality(KnownScenes \cup {SceneIdTable[framePaths]}) <= MaxScenes

(* handleAnalyzeStory, then the view's effect *)
HandleAnalyzeStory ==
    /\ GridShown
    /\ IF \E idx \in selectedIndices : ~HasFrame(idx)
       THEN (* frames[idx] is undefined: reading .path throws *)
            /\ consoleLog' = <<"TypeError: Cannot read properties of undefined (reading 'path')">>
            /\ ipcSent' = <<>>
            /\ UNCHANGED <<storyboardOpen, storyboardFrames, cachedAnalysis,
                           sbAnalysis, sbLoading, sbError, pendingStory>>
       ELSE IF Len(SelectedPaths) < 2
       THEN /\ consoleLog' = <<>>
            /\ ipcSent' = <<>>
            /\ UNCHANGED <<storyboardOpen, storyboardFrames, cachedAnalysis,
                           sbAnalysis, sbLoading, sbError, pendingStory>>
       ELSE LET valid == IsCacheValid(cachedAnalysis, SelectedPaths)
                cache == IF valid THEN cachedAnalysis ELSE Undefined
                view == StoryboardEffect(TRUE, SelectedPaths, cache, ViewState)
            IN  /\ valid \/ RequestAllowed(SelectedPaths)
                /\ cachedAnalysis' = cache
                /\ storyboardFrames' = SelectedPaths
                /\ storyboardOpen' = TRUE
                /\ ViewBecomes(view)
                /\ ipcSent' = RequestsSent(view)
                /\ consoleLog' = <<IF valid THEN "Using cached story analysis"
                                   ELSE "New selection, clearing cache">> \o view.log
    /\ UNCHANGED <<filePath, frames, selectedIndices, isProcessing, extractionFor,
                   storyTimeline>>
    /\ UNCHANGED AppRest


(* { ...result.analysis, frames: framePaths, timestamp }; the timestamp is *)
(* not kept                                                                *)
Enriched(result, framePaths) ==
    [scene_id |-> result.analysis[1].scene_id,
     summary |-> result.analysis[1].summary,
     panel_guidance |-> result.analysis[1].panel_guidance,
     frames |-> framePaths]

(* analyzeStorySequence answers request k: the rest of analyzeStory, with  *)
(* handleAnalysisComplete on success, then the effects of App and of the   *)
(* mounted view                                                            *)
StoryRequestSettles ==
    \E k \in 1..Len(pendingStory), http \in {"ok", "status500"}, body \in {SceneJson, SceneJsonB} :
      LET request == pendingStory[k]
          result == StoryAnswerTable[<<request.framePaths, http, body>>]
          others == [j \in 1..(Len(pendingStory) - 1) |->
                        IF j < k THEN pendingStory[j] ELSE pendingStory[j + 1]]
      IN  /\ http = "ok" \/ body = SceneJson
          /\ pendingStory' = others
          /\ IF result.success
             THEN LET enriched == Enriched(result, request.framePaths)
                      own == IF request.alive
                             THEN [ViewState EXCEPT !.analysis = Some(enriched), !.loading = FALSE]
                             ELSE ViewState
                      view == IF filePath # ""
                              THEN StoryboardEffect(storyboardOpen, storyboardFrames,
                                                    Some(enriched), own)
                              ELSE own
                  IN  /\ cachedAnalysis' = Some(enriched)
                      /\ storyTimeline' = MergeIntoTimeline(storyTimeline, enriched)
                      /\ sbAnalysis' = view.analysis
                      /\ sbLoading' = view.loading
                      /\ sbError' = view.error
                      /\ ipcSent' = SaveTimelineEffect(filePath,
                                        MergeIntoTimeline(storyTimeline, enriched))
                      /\ consoleLog' =
                            <<IF FindIndex(storyTimeline, enriched.scene_id) # 0
                              THEN "Auto-synced scene in timeline:"
                              ELSE "Added new scene to timeline:">>
             ELSE /\ sbError' = IF request.alive THEN result.error ELSE sbError
                  /\ sbLoading' = IF request.alive THEN FALSE ELSE sbLoading
                  /\ ipcSent' = <<>>
                  /\ consoleLog' = <<>>
                  /\ UNCHANGED <<cachedAnalysis, storyTimeline, sbAnalysis>>
      /\ UNCHANGED <<filePath, frames, selectedIndices, isProcessing, extractionFor,
                     storyboardOpen, storyboardFrames>>
      /\ UNCHANGED AppRest

(* the timeline strip is on screen and can be clicked *)
StripShown == filePath # "" /\ ~storyboardOpen /\ Len(storyTimeline) > 0

(* TimelineStrip: onRemoveScene(idx) -> handleRemoveFromTimeline, then the *)
(* save effect                                                             *)
HandleRemoveFromTimeline ==
    /\ StripShown
    /\ \E index \in 0..(Len(storyTimeline) - 1) :
         /\ storyTimeline' = RemoveAt(storyTimeline, index)
         /\ ipcSent' = SaveTimelineEffect(filePath, RemoveAt(storyTimeline, index))
    /\ consoleLog' = <<>>
    /\ UNCHANGED <<filePath, frames, selectedIndices, isProcessing, extractionFor,
                   storyboardOpen, storyboardFrames, cachedAnalysis, sbAnalysis,
                   sbLoading, sbError, pendingStory>>
    /\ UNCHANGED AppRest

(* TimelineStrip: onViewScene(scene) -> handleViewTimelineScene, then the  *)
(* view's effect                                                           *)
HandleViewTimelineScene ==
    /\ StripShown
    /\ \E k \in 1..Len(storyTimeline) :
         LET scene == storyTimeline[k]
             view == StoryboardEffect(TRUE, scene.frames, Some(scene), ViewState)
         IN  /\ storyboardFrames' = scene.frames
             /\ cachedAnalysis' = Some(scene)
             /\ storyboardOpen' = TRUE
             /\ ViewBecomes(view)
             /\ ipcSent' = RequestsSent(view)
             /\ consoleLog' = view.log
    /\ UNCHANGED <<filePath, frames, selectedIndices, isProcessing, extractionFor,
                   storyTimeline>>
    /\ UNCHANGED AppRest

(* StoryboardView: onClose -> setStoryboardOpen(false), then its effect *)
CloseStoryboard ==
    /\ storyboardOpen
    /\ storyboardOpen' = FALSE
    /\ ViewBecomes(StoryboardEffect(FALSE, storyboardFrames, cachedAnalysis, ViewState))
    /\ ipcSent' = <<>>
    /\ consoleLog' = <<>>
    /\ UNCHANGED <<filePath, frames, selectedIndices, isProcessing, extractionFor,
                   storyboardFrames, storyTimeline, cachedAnalysis>>
    /\ UNCHANGED AppRest

AppNext ==
    \/ HandleFileSelect
    \/ ChangeVideo
    \/ HandleRunExtraction
    \/ RunExtractionSettles
    \/ HandleFrameClick
    \/ HandleSelectAll
    \/ HandleAnalyzeStory
    \/ StoryRequestSettles
    \/ HandleRemoveFromTimeline
    \/ HandleViewTimelineScene
    \/ CloseStoryboard

----------------------------------------------------------------------------
(* StoryboardView.tsx: the panels of the analysis on screen and the frame  *)
(* picker of a panel.  The picker is an overlay over the storyboard: while *)
(* it is open only its own Cancel button and frames can be clicked.        *)

(* useState<number | null>(null) *)
PickerClosed == editingPanelIndex = Undefined

(* if (!isOpen) return null; the view is mounted while a video is selected *)
StoryboardShown == filePath # "" /\ storyboardOpen

(* analysis.panel_guidance.panels *)
PanelsOf(analysis) == analysis.panel_guidance.panels

(* the picker's render reads                                               *)
(* analysis?.panel_guidance.panels[editingPanelIndex].best_frame_index for *)
(* every frame; when the analysis on screen has no such panel the read     *)
(* throws and React takes the window down                                  *)
PickerRenderThrows ==
    /\ StoryboardShown
    /\ editingPanelIndex # Undefined
    /\ Len(storyboardFrames) > 0
    /\ sbAnalysis # Undefined
    /\ editingPanelIndex[1] + 1 > Len(PanelsOf(sbAnalysis[1]))

(* mutant: the chosen frame is written to every panel *)
HandleFrameSelectAllPanels(analysis, editing, frameIdx) ==
    IF editing = Undefined \/ analysis = Undefined
    THEN [analysis |-> analysis, editing |-> editing, completed |-> <<>>]
    ELSE LET newAnalysis ==
                 [analysis[1] EXCEPT !.panel_guidance.panels =
                     [q \in DOMAIN @ |-> [@[q] EXCEPT !.best_frame_index = frameIdx]]]
         IN  [analysis |-> Some(newAnalysis), editing |-> Undefined,
              completed |-> <<newAnalysis>>]

(* handleFrameSelect(frameIdx) on the view's analysis and                  *)
(* editingPanelIndex: the two after the call, and the analyses handed to   *)
(* onAnalysisComplete                                                      *)
HandleFrameSelect(analysis, editing, frameIdx) ==
    IF editing = Undefined \/ analysis = Undefined
    THEN [analysis |-> analysis, editing |-> editing, completed |-> <<>>]
    ELSE LET newAnalysis ==
                 [analysis[1] EXCEPT
                     !.panel_guidance.panels[editing[1] + 1].best_frame_index = frameIdx]
         IN  [analysis |-> Some(newAnalysis), editing |-> Undefined,
              completed |-> <<newAnalysis>>]

(* a panel's image is clicked: setEditingPanelIndex(idx) *)
EditPanel ==
    /\ StoryboardShown
    /\ PickerClosed
    /\ sbAnalysis # Undefined
    /\ \E idx \in 0..(Len(PanelsOf(sbAnalysis[1])) - 1) : editingPanelIndex' = Some(idx)
    /\ ipcSent' = <<>>
    /\ consoleLog' = <<>>
    /\ UNCHANGED <<filePath, frames, selectedIndices, isProcessing, extractionFor,
                   storyboardOpen, storyboardFrames, storyTimeline, cachedAnalysis,
                   sbAnalysis, sbLoading, sbError, pendingStory>>
    /\ UNCHANGED <<flowVars, sceneVars, lmVars, runVars>>

(* the picker is on screen *)
PickerShown == StoryboardShown /\ ~PickerClosed /\ ~PickerRenderThrows

(* the picker's Cancel button: setEditingPanelIndex(null) *)
CancelEdit ==
    /\ PickerShown
    /\ editingPanelIndex' = Undefined
    /\ ipcSent' = <<>>
    /\ consoleLog' = <<>>
    /\ UNCHANGED <<filePath, frames, selectedIndices, isProcessing, extractionFor,
                   storyboardOpen, storyboardFrames, storyTimeline, cachedAnalysis,
                   sbAnalysis, sbLoading, sbError, pendingStory>>
    /\ UNCHANGED <<flowVars, sceneVars, lmVars, runVars>>

(* a frame of the picker is clicked: handleFrameSelect(i), with            *)
(* handleAnalysisComplete as onAnalysisComplete, then the save effect and  *)
(* the view's effect                                                       *)
PickFrame ==
    /\ PickerShown
    /\ \E frameIdx \in 0..(Len(storyboardFrames) - 1) :
         LET out == HandleFrameSelect(sbAnalysis, editingPanelIndex, frameIdx)
         IN  /\ editingPanelIndex' = out.editing
             /\ IF out.completed = <<>>
                THEN /\ ipcSent' = <<>>
                     /\ consoleLog' = <<>>
                     /\ UNCHANGED <<storyTimeline, cachedAnalysis, sbAnalysis,
                                    sbLoading, sbError, pendingStory>>
                ELSE LET newAnalysis == out.completed[1]
                         timeline == MergeIntoTimeline(storyTimeline, newAnalysis)
                         view == StoryboardEffect(storyboardOpen, storyboardFrames,
                                     Some(newAnalysis),
                                     [ViewState EXCEPT !.analysis = out.analysis])
                     IN  /\ cachedAnalysis' = Some(newAnalysis)
                         /\ storyTimeline' = timeline
                         /\ ViewBecomes(view)
                         /\ ipcSent' = SaveTimelineEffect(filePath, timeline)
                                       \o RequestsSent(view)
                         /\ consoleLog' =
                               <<IF FindIndex(storyTimeline, newAnalysis.scene_id) # 0
                                 THEN "Auto-synced scene in timeline:"
                                 ELSE "Added new scene to timeline:">>
    /\ UNCHANGED <<filePath, frames, selectedIndices, isProcessing, extractionFor,
                   storyboardOpen, storyboardFrames>>
    /\ UNCHANGED <<flowVars, sceneVars, lmVars, runVars>>

(* a narrative request settles while the window is still up *)
StoryRequestSettlesShown == ~PickerRenderThrows /\ StoryRequestSettles

(* the storyboard's Close button, reachable while the picker is closed *)
CloseStoryboardShown == PickerClosed /\ CloseStoryboard

(* a video is selected, its frames are extracted and the first two are   *)
(* selected in the grid                                                    *)
PanelsInit ==
    /\ filePath = "a.mp4"
    /\ frames \in ExtractionOutcomes("a.mp4")
    /\ selectedIndices = {0, 1}
    /\ isProcessing = FALSE
    /\ extractionFor = ""
    /\ storyboardOpen = FALSE
    /\ storyboardFrames = <<>>
    /\ storyTimeline = <<>>
    /\ cachedAnalysis = Undefined
    /\ sbAnalysis = Undefined
    /\ sbLoading = FALSE
    /\ sbError = Undefined
    /\ pendingStory = <<>>
    /\ ipcSent = <<>>
    /\ consoleLog = <<>>

PanelsNext ==
    \/ HandleSelectAll
    \/ HandleAnalyzeStory
    \/ StoryRequestSettlesShown
    \/ HandleRemoveFromTimeline
    \/ HandleViewTimelineScene
    \/ CloseStoryboardShown
    \/ EditPanel
    \/ CancelEdit
    \/ PickFrame

----------------------------------------------------------------------------

(* App.tsx handleRunExtraction in detail: the modes of the control panel,  *)
(* the records built from what each extractor returns, and the final sort. *)
(* Times are quotients of integers, in seconds.                            *)

MaxShots == 2

RunVideo == "/v.mp4"

DefaultFps == 3

FpsPool == {1, DefaultFps}

Ratio(num, den) == [num |-> num, den |-> den]

(* a time the scene parser produced, held in thousandths there *)
Seconds(thousandths) == Ratio(thousandths, 1000)

(* the useState defaults of the controls; nothing on disk *)
RunIdle ==
    /\ showExtractionDialog = FALSE
    /\ doTimeFrames = TRUE
    /\ doKeyframes = FALSE
    /\ doSceneChanges = FALSE
    /\ fps = DefaultFps
    /\ dirHasFrames = FALSE
    /\ extractions = <<>>
    /\ runReturned = Undefined

(* the name ffmpeg gives the i-th image of an output pattern <prefix>%04d.png *)
NumberedFile(prefix, i) ==
    prefix \o (IF i < 10 THEN "000" ELSE IF i < 100 THEN "00" ELSE "0")
    \o NatToString(i) \o ".png"

(* await window.ipcRenderer.extractTimeFrames(filePath, outputDir, fps):   *)
(* the paths of the images written, whatever the extractor names them      *)
TimeFramePrefixes == {"frame_", "time_"}

TimeFramesSettled ==
    {[resolved |-> [i \in 1..k |->
                       PathJoin(OutputDirOf(RunVideo), NumberedFile(prefix, i))]] :
        prefix \in TimeFramePrefixes, k \in 0..MaxShots}
    \cup {[rejected |-> "FFmpeg exited with code 1"]}

(* await window.ipcRenderer.extractKeyframes(filePath, outputDir) *)
KeyframesSettled ==
    {ExtractKeyframesSettled(code, {NumberedFile("key_", i) : i \in 1..k}) :
        code \in {0, 1}, k \in 0..MaxShots}

(* await window.ipcRenderer.extractSceneChanges(filePath, outputDir,       *)
(* threshold): ffmpeg's log delivered line by line, one file per line      *)
SceneChangesSettled ==
    {[resolved |->
        ZipFramesWithFiles(
            ParseChunk(<<>>, StderrText([i \in 1..Len(run) |-> SceneLine(i, run[i])]), 1),
            SceneFiles({NumberedFile("scene_", i) : i \in 1..Len(run)}))] :
        run \in SceneRuns}
    \cup {[rejected |-> "FFmpeg exited with code 1"]}

(* a mode that is off: its extractor is not called *)
NotCalled == [skipped |-> TRUE]

(* what the extractors of one run give, and the rate the run was given *)
RunReturns(time, key, scene, rate) ==
    [time : IF time THEN TimeFramesSettled ELSE {NotCalled},
     key : IF key THEN KeyframesSettled ELSE {NotCalled},
     scene : IF scene THEN SceneChangesSettled ELSE {NotCalled},
     rate : {rate}]

Rejected(settled) == "rejected" \in DOMAIN settled

Resolved(settled) == IF "resolved" \in DOMAIN settled THEN settled.resolved ELSE <<>>

(* mutant: the first image is given time 0 *)
TimeOfFromZero(i, rate) == Ratio(i - 1, rate)

(* time: (i + 1) / fps, i the index from 0; here i counts from 1 *)
TimeOf(i, rate) == Ratio(i, rate)

(* paths.map((p, i) => ({ path: p, type: 'time', frame: i + 1, time: (i + 1) / fps })) *)
TimeRecords(paths, rate) ==
    [i \in 1..Len(paths) |->
        [path |-> paths[i], type |-> "time", frame |-> i, time |-> Some(TimeOf(i, rate))]]

(* paths.map((p, i) => ({ path: p, type: 'keyframe', frame: i + 1, time: undefined })) *)
KeyframeRecords(paths) ==
    [i \in 1..Len(paths) |->
        [path |-> paths[i], type |-> "keyframe", frame |-> i, time |-> Undefined]]

(* sceneData.map(s => ({ path: s.path, type: 'scene', frame: s.frame, time: s.time, pts: s.pts })) *)
SceneRecords(sceneData) ==
    [i \in 1..Len(sceneData) |->
        [path |-> sceneData[i].path, type |-> "scene", frame |-> sceneData[i].frame,
         time |-> Some(Seconds(sceneData[i].time)), pts |-> sceneData[i].pts]]

(* a.time && b.time: undefined and 0 are both falsy *)
Truthy(time) == time # Undefined /\ time[1].num # 0

(* a.path.localeCompare(b.path): the names here are lower-case letters,    *)
(* digits, '_' and '.', and two of them first differ at a letter or a      *)
(* digit, where the locale's order is the order of the code units          *)
LocaleCompare(a, b) == IF a = b THEN 0 ELSE IF StringLess(a, b) THEN -1 ELSE 1

(* the comparator of newFrames.sort:                                       *)
(* (a, b) => a.time && b.time ? a.time - b.time : a.path.localeCompare(b.path) *)
ByTimeElsePath(a, b) ==
    IF Truthy(a.time) /\ Truthy(b.time)
    THEN a.time[1].num * b.time[1].den - b.time[1].num * a.time[1].den
    ELSE LocaleCompare(a.path, b.path)

(* Array.prototype.sort(comparefn) on a short array: the leading run is    *)
(* found, reversed when it strictly descends, and each later element is    *)
(* inserted into the sorted prefix by binary search                        *)
RECURSIVE RunLength(_, _, _)
RunLength(array, idx, descending) ==
    IF idx > Len(array) THEN idx - 1
    ELSE LET order == ByTimeElsePath(array[idx], array[idx - 1])
         IN  IF (descending /\ order >= 0) \/ (~descending /\ order < 0)
             THEN idx - 1
             ELSE RunLength(array, idx + 1, descending)

Reverse(array) == [i \in 1..Len(array) |-> array[Len(array) + 1 - i]]

RECURSIVE InsertionPoint(_, _, _, _)
InsertionPoint(array, pivot, left, right) ==
    IF left >= right THEN left
    ELSE LET mid == left + ((right - left) \div 2)
         IN  IF ByTimeElsePath(pivot, array[mid + 1]) < 0
             THEN InsertionPoint(array, pivot, left, mid)
             ELSE InsertionPoint(array, pivot, mid + 1, right)

RECURSIVE InsertFrom(_, _)
InsertFrom(array, start) ==
    IF start >= Len(array) THEN array
    ELSE LET pivot == array[start + 1]
             left == InsertionPoint(array, pivot, 0, start)
         IN  InsertFrom(SubSeq(array, 1, left) \o <<pivot>>
                        \o SubSeq(array, left + 1, start)
                        \o SubSeq(array, start + 2, Len(array)), start + 1)

(* newFrames.sort(...) *)
SortFrames(array) ==
    IF Len(array) < 2 THEN array
    ELSE LET descending == ByTimeElsePath(array[2], array[1]) < 0
             len == RunLength(array, 3, descending)
         IN  InsertFrom(IF descending
                        THEN Reverse(SubSeq(array, 1, len)) \o SubSeq(array, len + 1, Len(array))
                        ELSE array, len)

(* the list handleRunExtraction gives setFrames when no extractor failed *)
NewFrames(returned) ==
    SortFrames(TimeRecords(Resolved(returned.time), returned.rate)
               \o KeyframeRecords(Resolved(returned.key))
               \o SceneRecords(Resolved(returned.scene)))

(* the state once a video has been chosen; its output directory may hold  *)
(* the frames of an earlier session                                        *)
RunInit ==
    /\ filePath = RunVideo
    /\ frames = <<>>
    /\ selectedIndices = {}
    /\ isProcessing = FALSE
    /\ extractionFor = ""
    /\ storyboardOpen = FALSE
    /\ storyboardFrames = <<>>
    /\ storyTimeline = <<>>
    /\ cachedAnalysis = Undefined
    /\ sbAnalysis = Undefined
    /\ sbLoading = FALSE
    /\ sbError = Undefined
    /\ pendingStory = <<>>
    /\ ipcSent = <<>>
    /\ consoleLog = <<>>
    /\ showExtractionDialog = FALSE
    /\ doTimeFrames = TRUE
    /\ doKeyframes = FALSE
    /\ doSceneChanges = FALSE
    /\ fps = DefaultFps
    /\ dirHasFrames \in BOOLEAN
    /\ extractions = <<>>
    /\ runReturned = Undefined

RunAppRest == <<selectedIndices, storyboardOpen, storyboardFrames, storyTimeline,
                cachedAnalysis, sbAnalysis, sbLoading, sbError, pendingStory>>

(* ControlPanel: the fps input, setFps(parseFloat(e.target.value) || 1) *)
SetFps ==
    /\ ~isProcessing
    /\ \E rate \in FpsPool \ {fps} : fps' = rate
    /\ UNCHANGED <<showExtractionDialog, doTimeFrames, doKeyframes, doSceneChanges,
                   dirHasFrames, extractions, runReturned>>
    /\ UNCHANGED <<flowVars, sceneVars, lmVars, appVars, pickerVars>>

(* ControlPanel: the three mode checkboxes *)
SetExtractTimeFrames ==
    /\ ~isProcessing
    /\ doTimeFrames' = ~doTimeFrames
    /\ UNCHANGED <<showExtractionDialog, doKeyframes, doSceneChanges, fps,
                   dirHasFrames, extractions, runReturned>>
    /\ UNCHANGED <<flowVars, sceneVars, lmVars, appVars, pickerVars>>

SetExtractKeyframes ==
    /\ ~isProcessing
    /\ doKeyframes' = ~doKeyframes
    /\ UNCHANGED <<showExtractionDialog, doTimeFrames, doSceneChanges, fps,
                   dirHasFrames, extractions, runReturned>>
    /\ UNCHANGED <<flowVars, sceneVars, lmVars, appVars, pickerVars>>

SetExtractSceneChanges ==
    /\ ~isProcessing
    /\ doSceneChanges' = ~doSceneChanges
    /\ UNCHANGED <<showExtractionDialog, doTimeFrames, doKeyframes, fps,
                   dirHasFrames, extractions, runReturned>>
    /\ UNCHANGED <<flowVars, sceneVars, lmVars, appVars, pickerVars>>

(* the channels handleRunExtraction invokes for the modes that are on *)
ExtractCalls ==
    (IF doTimeFrames THEN <<[channel |-> "extractTimeFrames"]>> ELSE <<>>)
    \o (IF doKeyframes THEN <<[channel |-> "extractKeyframes"]>> ELSE <<>>)
    \o (IF doSceneChanges THEN <<[channel |-> "extractSceneChanges"]>> ELSE <<>>)

(* handleRunExtraction(forceNew) up to its first extractor call: without   *)
(* forceNew the output directory is checked and, when it holds frames, the *)
(* dialog opens and the handler returns                                    *)
HandleRunExtractionStart(forceNew) ==
    /\ filePath # ""
    /\ IF ~forceNew /\ dirHasFrames
       THEN /\ showExtractionDialog' = TRUE
            /\ ipcSent' = <<[channel |-> "checkExtractionExists"]>>
            /\ UNCHANGED <<frames, isProcessing, extractionFor, extractions, runReturned>>
       ELSE /\ isProcessing' = TRUE
            /\ extractions' = Append(extractions, OutputDirOf(filePath))
            /\ extractionFor' = filePath
            /\ frames' = <<>>
            /\ showExtractionDialog' = FALSE
            /\ runReturned' = Undefined
            /\ ipcSent' = (IF forceNew THEN <<>>
                           ELSE <<[channel |-> "checkExtractionExists"]>>)
                          \o ExtractCalls
    /\ consoleLog' = <<>>
    /\ UNCHANGED <<filePath, doTimeFrames, doKeyframes, doSceneChanges, fps, dirHasFrames>>
    /\ UNCHANGED RunAppRest
    /\ UNCHANGED <<flowVars, sceneVars, lmVars, pickerVars>>

(* what the button's onClick={onRunExtraction} passes for forceNew: the    *)
(* click event, an object, which is truthy                                 *)
ClickEventAsForceNew == TRUE

(* mutant: the button stays enabled while an extraction runs *)
RunButtonDisabledWithoutModes == ~doTimeFrames /\ ~doKeyframes /\ ~doSceneChanges

(* disabled={isProcessing || (!extractTimeFrames && !extractKeyframes && !extractSceneChanges)} *)
RunButtonDisabled == isProcessing \/ (~doTimeFrames /\ ~doKeyframes /\ ~doSceneChanges)

(* ControlPanel: the Run Extraction button *)
RunExtractionButton ==
    /\ ~RunButtonDisabled
    /\ HandleRunExtractionStart(ClickEventAsForceNew)

(* the extractors have answered in turn: setFrames(newFrames) after the    *)
(* sort, or the catch block at the first rejection; finally                *)
(* setIsProcessing(false)                                                  *)
HandleRunExtractionEnd ==
    /\ Len(extractions) > 0
    /\ extractions' = Tail(extractions)
    /\ \E returned \in RunReturns(doTimeFrames, doKeyframes, doSceneChanges, fps) :
         /\ runReturned' = Some(returned)
         /\ IF Rejected(returned.time) \/ Rejected(returned.key) \/ Rejected(returned.scene)
            THEN /\ frames' = frames
                 /\ consoleLog' = <<"Extraction failed">>
                 /\ dirHasFrames' = dirHasFrames
            ELSE /\ frames' = NewFrames(returned)
                 /\ consoleLog' = <<>>
                 /\ dirHasFrames' = (dirHasFrames \/ Len(NewFrames(returned)) > 0)
    /\ isProcessing' = FALSE
    /\ extractionFor' = ""
    /\ ipcSent' = <<>>
    /\ UNCHANGED <<filePath, showExtractionDialog, doTimeFrames, doKeyframes,
                   doSceneChanges, fps>>
    /\ UNCHANGED RunAppRest
    /\ UNCHANGED <<flowVars, sceneVars, lmVars, pickerVars>>

RunNext ==
    \/ SetFps
    \/ SetExtractTimeFrames
    \/ SetExtractKeyframes
    \/ SetExtractSceneChanges
    \/ RunExtractionButton
    \/ HandleRunExtractionEnd

----------------------------------------------------------------------------
(* Specifications *)

(* an invocation of a flow handler, nothing else going on *)
InitFlow == FlowInit /\ SceneIdle /\ LmIdle /\ AppIdle /\ RunIdle /\ PickerClosed

SpecFlow == InitFlow /\ [][FlowNext]_vars

(* a run of extractSceneChanges, nothing else going on *)
InitScene == FlowIdle /\ SceneInit /\ LmIdle /\ AppIdle /\ RunIdle /\ PickerClosed

SpecScene == InitScene /\ [][SceneNext]_vars

(* the analysis client before its first call, nothing else going on *)
InitLm == FlowIdle /\ SceneIdle /\ LmIdle /\ AppIdle /\ RunIdle /\ PickerClosed

(* two narrative requests about to be handled *)
InitIdentity == FlowIdle /\ SceneIdle /\ LmRequested /\ AppIdle /\ RunIdle /\ PickerClosed

SpecIdentity == InitIdentity /\ [][IdentityNext]_vars

SpecParse == InitLm /\ [][ParseNext]_vars

SpecTags == InitLm /\ [][TagsNext]_vars

SpecMime == InitLm /\ [][MimeNext]_vars

(* the window as it opens, nothing else going on *)
InitApp == FlowIdle /\ SceneIdle /\ LmIdle /\ AppInit /\ RunIdle /\ PickerClosed

Spec == InitApp /\ [][AppNext]_vars

(* a video is chosen; the control panel and its Run Extraction button *)
InitRun == FlowIdle /\ SceneIdle /\ LmIdle /\ RunInit /\ PickerClosed

SpecRun == InitRun /\ [][RunNext]_vars

InitPanels == FlowIdle /\ SceneIdle /\ LmIdle /\ PanelsInit /\ RunIdle /\ PickerClosed
SpecPanels == InitPanels /\ [][PanelsNext]_vars

----------------------------------------------------------------------------
(* Claims about the sequential flow and batch handlers (SpecFlow) *)

FlowUnits == IF flowCall = "sequential" THEN Len(flowPaths) - 1 ELSE Len(flowPaths)

FlowPayload(r) == IF flowCall = "sequential" THEN r.comparison ELSE r.analysis

(* C1: for N >= 2 frame paths the sequential flow handler returns success  *)
(* with exactly N-1 records, and the k-th record (k = 0..N-2) carries      *)
(* index k, frame1 = paths[k] and frame2 = paths[k+1], whether the pair's  *)
(* comparison succeeded or failed.                                         *)
C1_SequentialRecords ==
    (flowCall = "sequential" /\ flowPc = "done" /\ Len(flowPaths) >= 2) =>
        /\ flowReturn # Undefined
        /\ flowReturn[1].success
        /\ flowReturn[1].results # Undefined
        /\ LET results == flowReturn[1].results[1]
           IN  /\ Len(results) = Len(flowPaths) - 1
               /\ \A k \in 0..(Len(flowPaths) - 2) :
                    /\ results[k + 1].index = k
                    /\ results[k + 1].frame1 = flowPaths[k + 1]
                    /\ results[k + 1].frame2 = flowPaths[k + 2]

C1_Witness ==
    /\ flowCall = "sequential"
    /\ flowPc = "done"
    /\ Len(flowPaths) = 3
    /\ flowOutcomes = <<"failure", "success">>
    /\ Len(flowReturn[1].results[1]) = 2

(* C2: with fewer than 2 frame paths the sequential flow handler returns   *)
(* success = false with an error message, and neither calls compareFrames  *)
(* nor sends a progress notification.                                      *)
C2_TooFewFramesFailsFast ==
    (flowCall = "sequential" /\ Len(flowPaths) < 2) =>
        /\ flowIssued = <<>>
        /\ flowInFlight = {}
        /\ flowSent = <<>>
        /\ flowPc = "done" =>
             /\ flowReturn # Undefined
             /\ flowReturn[1].success = FALSE
             /\ flowReturn[1].error # Undefined
             /\ flowReturn[1].results = Undefined

C2_Witness ==
    /\ flowCall = "sequential"
    /\ Len(flowPaths) = 1
    /\ flowPc = "done"
    /\ flowReturn[1].success = FALSE

(* C3: in the sequential flow and in the batch, a failed unit is recorded  *)
(* on its own record (error set, no comparison / analysis), a successful   *)
(* unit has no error, and every unit requested is attempted, in order,     *)
(* whatever the earlier units did.                                         *)
C3_FailureIsolation ==
    (flowPc = "done" /\ (flowCall = "batch" \/ Len(flowPaths) >= 2)) =>
        /\ flowIssued = [k \in 1..FlowUnits |-> k - 1]
        /\ Len(flowResults) = FlowUnits
        /\ Len(flowOutcomes) = FlowUnits
        /\ \A k \in 1..FlowUnits :
             IF flowOutcomes[k] = "success"
             THEN flowResults[k].error = Undefined /\ FlowPayload(flowResults[k]) # Undefined
             ELSE flowResults[k].error # Undefined /\ FlowPayload(flowResults[k]) = Undefined

C3_Witness ==
    /\ flowPc = "done"
    /\ flowCall = "batch"
    /\ Len(flowPaths) = 3
    /\ flowOutcomes = <<"failure", "success", "failure">>
    /\ flowResults[1].error # Undefined
    /\ flowResults[2].error = Undefined


(* C14: within one sequential flow or batch call at most one inference     *)
(* request is in flight, units are requested in increasing index order,    *)
(* and the request for the next unit is issued only when every earlier     *)
(* unit's result has been recorded and its progress notification sent.     *)
C14_OneRequestAtATime ==
    /\ Cardinality(flowInFlight) <= 1
    /\ flowInFlight \subseteq {Len(flowIssued) - 1}
    /\ flowIssued = [k \in 1..Len(flowIssued) |-> k - 1]
    /\ Len(flowResults) = Len(flowIssued) - Cardinality(flowInFlight)
    /\ Len(flowSent) = Len(flowResults)

(* C14: the second request of a sequential flow is in flight, the first    *)
(* pair's result recorded and notified                                     *)
C14_Witness ==
    /\ flowCall = "sequential"
    /\ flowPc = "await"
    /\ flowIssued = <<0, 1>>
    /\ flowInFlight = {1}
    /\ Len(flowResults) = 1
    /\ Len(flowSent) = 1

(* the notification carries the unit's result *)
FlowNotifies(sent, k) ==
    IF flowCall = "sequential"
    THEN /\ sent.channel = "flow-analysis-progress"
         /\ sent.result.success = (flowOutcomes[k] = "success")
         /\ sent.result.frame1 = flowPaths[k]
         /\ sent.result.frame2 = flowPaths[k + 1]
         /\ sent.result.comparison = flowResults[k].comparison
         /\ sent.result.error = flowResults[k].error
    ELSE /\ sent.channel = "analysis-progress"
         /\ sent.result = flowResults[k]
         /\ sent.result.success = (flowOutcomes[k] = "success")

(* C15: a batch over N frames sends exactly N progress notifications and a *)
(* sequential flow over N frames exactly N-1, one after each unit whether  *)
(* it succeeded or failed; the k-th carries current = k, the fixed total   *)
(* and that unit's result.                                                 *)
C15_ProgressPerUnit ==
    (flowCall = "batch" \/ Len(flowPaths) >= 2) =>
        /\ Len(flowSent) = Len(flowOutcomes)
        /\ \A k \in 1..Len(flowSent) :
             /\ flowSent[k].current = k
             /\ flowSent[k].total = FlowUnits
             /\ FlowNotifies(flowSent[k], k)
        /\ flowPc = "done" => Len(flowSent) = FlowUnits

(* C15: a batch of three frames has ended with three notifications, the    *)
(* second one for a frame whose analysis failed                            *)
C15_Witness ==
    /\ flowCall = "batch"
    /\ flowPc = "done"
    /\ Len(flowPaths) = 3
    /\ Len(flowSent) = 3
    /\ flowOutcomes = <<"success", "failure", "success">>
    /\ flowSent[3].current = 3
    /\ flowSent[3].total = 3

----------------------------------------------------------------------------
(* Claims about scene detection (SpecScene) *)

SceneExpected(lines, files) ==
    [i \in 1..Len(lines) |->
        [path |-> PathJoin(OutputDir, files[i]),
         frame |-> lines[i].frame,
         pts |-> lines[i].pts,
         time |-> lines[i].time]]

SceneClaimCase ==
    /\ scPc = "closed"
    /\ scExit = 0
    /\ Len(SceneFiles(scDir)) = Len(scLines)

(* C4: when ffmpeg logs K showinfo lines that carry n, pts and pts_time,   *)
(* exits with code 0 and the output directory holds exactly K scene_*.png  *)
(* files, extraction resolves with K records, the i-th one built from the  *)
(* i-th line and the i-th file name in sorted order.                       *)
C4_SceneRecordsMatchLines ==
    SceneClaimCase =>
        scResult = Some([resolved |-> SceneExpected(scLines, SceneFiles(scDir))])

(* C4, the failing case: a chunk of stderr ended inside a line, and the    *)
(* resolved list is shorter than the K lines and K files.                  *)
C4_Witness ==
    /\ SceneClaimCase
    /\ Len(scLines) > 0
    /\ ~scAligned
    /\ Len(scResult[1].resolved) < Len(scLines)


(* the metadata record a showinfo line stands for, before it has a path *)
LineRecords(lines) ==
    [i \in 1..Len(lines) |->
        [path |-> "", frame |-> lines[i].frame, pts |-> lines[i].pts,
         time |-> lines[i].time]]

(* C23: once the whole log has been delivered, the parser holds exactly    *)
(* one metadata record per showinfo line, in stream order, however the     *)
(* stream was cut into chunks, a cut inside a line included.               *)
C23_OneRecordPerLineAnyChunking ==
    (scPc = "running" /\ scPos = Len(scStream)) => scFrames = LineRecords(scLines)

(* the whole log of MaxLines lines has arrived, a chunk having ended       *)
(* inside a line                                                           *)
C23_Witness ==
    /\ scPc = "running"
    /\ scPos = Len(scStream)
    /\ Len(scLines) = MaxLines
    /\ ~scAligned

(* the extractor exited with a code other than 0, or could not be spawned *)
(* the process has exited with code 0 and the promise is settled *)
SceneExitedZero == scPc = "closed" /\ scExit = 0

(* C26: when the number M of parsed records differs from the number F of   *)
(* scene files, extractSceneChanges still resolves, with exactly min(M, F) *)
(* records: the i-th parsed record with the path of the i-th sorted file;  *)
(* no record has an empty path and the surplus is dropped without error    *)
C26_PairsFirstMinRecordsWithFiles ==
    SceneExitedZero =>
        LET files == SceneFiles(scDir)
            least == IF Len(scFrames) <= Len(files) THEN Len(scFrames) ELSE Len(files)
        IN  /\ scResult # Undefined
            /\ DOMAIN scResult[1] = {"resolved"}
            /\ Len(scResult[1].resolved) = least
            /\ \A i \in 1..least :
                  /\ scResult[1].resolved[i].path = PathJoin(OutputDir, files[i])
                  /\ scResult[1].resolved[i].path # ""
                  /\ scResult[1].resolved[i].frame = scFrames[i].frame
                  /\ scResult[1].resolved[i].pts = scFrames[i].pts
                  /\ scResult[1].resolved[i].time = scFrames[i].time

(* more records than files: two parsed, one file, one record returned *)
C26_Witness ==
    /\ SceneExitedZero
    /\ Len(scFrames) = 2
    /\ Len(SceneFiles(scDir)) = 1
    /\ scResult # Undefined
    /\ Len(scResult[1].resolved) = 1

SceneProcessFailed ==
    \/ scPc = "closed" /\ scExit # 0
    \/ scPc = "failed"

(* C13: every process-level failure (the extractor exits non-zero or       *)
(* cannot be spawned) reaches the caller of the operation as a value       *)
(* {success: false, error: message}; the operation does not throw or       *)
(* reject to its caller.                                                   *)
C13_FailureIsAResultValue ==
    SceneProcessFailed =>
        LET reply == InvokeExtractSceneChanges(scResult[1])
        IN  /\ ~reply.threw
            /\ reply.value # Undefined
            /\ DOMAIN reply.value[1] = {"success", "error"}
            /\ reply.value[1].success = FALSE

(* C13, the failing case: ffmpeg exited with code 1 and the caller of the  *)
(* extract-scene-changes channel got a rejection                           *)
C13_Witness ==
    /\ scPc = "closed"
    /\ scExit = 1
    /\ InvokeExtractSceneChanges(scResult[1]).threw
    /\ InvokeExtractSceneChanges(scResult[1]).message = "FFmpeg exited with code 1"

(* C16: the outcome of an extraction is decided by the exit code alone: a  *)
(* non-zero exit fails and returns no frame records even when metadata     *)
(* lines were parsed and image files written, and exit code 0 with no      *)
(* matching output file succeeds with an empty list.  For                  *)
(* extractSceneChanges, and for extractKeyframes on the same exit code and *)
(* directory.                                                              *)
C16_ExitCodeDecides ==
    scPc = "closed" =>
        /\ scExit # 0 =>
             /\ DOMAIN scResult[1] = {"rejected"}
             /\ DOMAIN ExtractKeyframesSettled(scExit, scDir) = {"rejected"}
        /\ scExit = 0 =>
             /\ DOMAIN scResult[1] = {"resolved"}
             /\ DOMAIN ExtractKeyframesSettled(scExit, scDir) = {"resolved"}
             /\ SceneFiles(scDir) = <<>> => scResult[1].resolved = <<>>
             /\ KeyframeFiles(scDir) = <<>> =>
                    ExtractKeyframesSettled(scExit, scDir).resolved = <<>>

(* C16: ffmpeg exited with code 1 after metadata lines were parsed and     *)
(* images written, and the extraction failed                               *)
C16_Witness ==
    /\ scPc = "closed"
    /\ scExit = 1
    /\ Len(scFrames) > 0
    /\ SceneFiles(scDir) # <<>>
    /\ KeyframeFiles(scDir) # <<>>
    /\ DOMAIN scResult[1] = {"rejected"}

----------------------------------------------------------------------------
(* Claims about the scene identity (SpecIdentity) *)

Occurrences(array, x) == Cardinality({k \in 1..Len(array) : array[k] = x})

(* q is an ordering of the paths of p *)
IsReordering(p, q) ==
    /\ Len(p) = Len(q)
    /\ \A k \in 1..Len(p) : Occurrences(p, p[k]) = Occurrences(q, p[k])

TwoSequencesAnalysed ==
    /\ lmCall = "analyzeSequence"
    /\ lmPrevResult # Undefined
    /\ lmPrevResult[1].success
    /\ lmResult[1].success

(* C5: two successful narrative analyses whose frame paths are the same    *)
(* paths in any two orders, the same order included, return the same       *)
(* scene_id.                                                               *)
C5_SceneIdOrderInvariant ==
    (TwoSequencesAnalysed /\ IsReordering(lmPrevPaths, lmPaths))
        => lmResult[1].analysis[1].scene_id = lmPrevResult[1].analysis[1].scene_id

(* C5: the same paths were analysed in two different orders, the model      *)
(* answering differently each time                                          *)
C5_Witness ==
    /\ TwoSequencesAnalysed
    /\ IsReordering(lmPrevPaths, lmPaths)
    /\ lmPrevPaths # lmPaths
    /\ lmResult[1].analysis[1].summary # lmPrevResult[1].analysis[1].summary

(* 'scene_' followed by 12 hexadecimal digits *)
HasSceneIdForm(id) ==
    /\ Len(id) = 18
    /\ SubSeq(id, 1, 6) = "scene_"
    /\ \A k \in 7..18 : \E j \in 1..Len(HexDigits) : Char(id, k) = Char(HexDigits, j)

(* C24: two successful narrative analyses of the same frame-path list get  *)
(* the same scene_id, of the form scene_ and 12 hexadecimal digits,        *)
(* whatever the model answered, a scene_id of its own included.            *)
C24_SceneIdFromPathsAlone ==
    (TwoSequencesAnalysed /\ lmPrevPaths = lmPaths)
        => /\ lmResult[1].analysis[1].scene_id = lmPrevResult[1].analysis[1].scene_id
           /\ HasSceneIdForm(lmResult[1].analysis[1].scene_id)
           /\ HasSceneIdForm(lmPrevResult[1].analysis[1].scene_id)

(* the same list was analysed twice and the model's two answers differed,  *)
(* the second one carrying the scene_id "m2"                               *)
C24_Witness ==
    /\ TwoSequencesAnalysed
    /\ lmPrevPaths = lmPaths
    /\ lmBody = SceneJsonB
    /\ lmResult[1].analysis[1].summary # lmPrevResult[1].analysis[1].summary

(* C30: two frame-path lists that are not permutations of each other never *)
(* give the same scene identity key, the sorted paths joined with a comma  *)
(* that is hashed into the scene_id, also when paths contain commas        *)
C30_KeySeparatesPathMultisets ==
    (TwoSequencesAnalysed /\ ~IsReordering(lmPrevPaths, lmPaths))
        => SceneKey(lmPrevPaths) # SceneKey(lmPaths)

(* two lists with different paths, one path of each containing a comma,   *)
(* were analysed and got the same scene_id                                 *)
C30_Witness ==
    /\ TwoSequencesAnalysed
    /\ ~IsReordering(lmPrevPaths, lmPaths)
    /\ \E k \in 1..Len(lmPaths) : Includes(lmPaths[k], ",")
    /\ lmResult[1].analysis[1].scene_id = lmPrevResult[1].analysis[1].scene_id

----------------------------------------------------------------------------
(* Claims about single-frame normalization (SpecTags) *)

(* analyzeFrame returned an analysis of an answer with objects and tags *)
TagsNormalized ==
    /\ lmCall = "analyzeFrame"
    /\ lmHttp = "ok"
    /\ lmBody \in DOMAIN FrameDocTable
    /\ lmResult # Undefined
    /\ lmResult[1].success

(* the positions of the tags whose lowercase form is the lowercase form of *)
(* no object                                                               *)
TagsToKeep(value) ==
    {k \in 1..Len(value.tags) :
        \A j \in 1..Len(value.objects) :
            ToLowerCase(value.tags[k]) # ToLowerCase(value.objects[j])}

(* C11: single-frame normalization removes a tag if and only if its        *)
(* lowercase form equals the lowercase form of some object; tags that only *)
(* contain or are contained in an object name are kept, the kept tags keep *)
(* their relative order, and the objects list is unchanged.                *)
C11_TagsRemovedIffObjectMatch ==
    TagsNormalized =>
        LET sent == FrameDocTable[lmBody]
            got == lmResult[1].analysis[1]
            keep == SortedIndices(TagsToKeep(sent))
        IN  /\ got.objects = sent.objects
            /\ got.summary = sent.summary
            /\ got.tags = [i \in 1..Len(keep) |-> sent.tags[keep[i]]]

(* C11: the tag that matches an object but for case was removed, and the   *)
(* tag that contains the object's name was kept                            *)
C11_Witness ==
    /\ TagsNormalized
    /\ FrameDocTable[lmBody].objects = <<"Cat">>
    /\ FrameDocTable[lmBody].tags = <<"cat", "cats">>
    /\ lmResult[1].analysis[1].tags = <<"cats">>

----------------------------------------------------------------------------
(* Claims about the window's story analysis and timeline (Spec) *)

(* the step is a run of handleAnalyzeStory that got past its guard *)
StoryRequested ==
    /\ consoleLog' # <<>>
    /\ Head(consoleLog') \in {"Using cached story analysis", "New selection, clearing cache"}

(* the cached analysis's frames list equals the selected paths element by  *)
(* element in the same order                                               *)
CacheMatchesSelection ==
    /\ cachedAnalysis # Undefined
    /\ Len(cachedAnalysis[1].frames) = Len(SelectedPaths)
    /\ \A k \in 1..Len(SelectedPaths) : cachedAnalysis[1].frames[k] = SelectedPaths[k]

ResultMerged ==
    /\ consoleLog' # <<>>
    /\ Head(consoleLog') \in {"Auto-synced scene in timeline:", "Added new scene to timeline:"}

(* C7: merging a result whose scene_id is that of a timeline entry         *)
(* replaces that entry where it is, the length and every other entry       *)
(* unchanged; merging a result with a scene_id not in the timeline appends *)
(* it at the end and changes no entry.                                     *)
C7_MergeReplacesOrAppends ==
    [][ResultMerged =>
         LET analysis == cachedAnalysis'[1]
             at == {k \in 1..Len(storyTimeline) :
                       storyTimeline[k].scene_id = analysis.scene_id}
         IN  IF at # {}
             THEN /\ Len(storyTimeline') = Len(storyTimeline)
                  /\ \E k \in at :
                       /\ storyTimeline'[k] = analysis
                       /\ \A j \in 1..Len(storyTimeline) :
                            j # k => storyTimeline'[j] = storyTimeline[j]
             ELSE /\ Len(storyTimeline') = Len(storyTimeline) + 1
                  /\ storyTimeline'[Len(storyTimeline')] = analysis
                  /\ \A j \in 1..Len(storyTimeline) :
                       storyTimeline'[j] = storyTimeline[j]]_vars

(* C7: a scene of a timeline of two was analysed again, and its entry now  *)
(* holds the new result beside the other entry                             *)
C7_Witness ==
    /\ consoleLog # <<>>
    /\ Head(consoleLog) = "Auto-synced scene in timeline:"
    /\ Len(storyTimeline) >= 2
    /\ \E k \in 1..Len(storyTimeline) : storyTimeline[k] = cachedAnalysis[1]

(* the save of this timeline to the video's output directory *)
SaveOf(path, timeline) ==
    [channel |-> "saveStoryTimeline", outputDir |-> OutputDirOf(path), timeline |-> timeline]

(* C8: after every mutation of the timeline of the selected video (append, *)
(* replace, removal, the removal of the last scene included) a save of the *)
(* new timeline to the extraction output directory is issued.              *)
C8_SaveAfterEveryMutation ==
    [][(filePath' # "" /\ storyTimeline' # storyTimeline) =>
         \E k \in 1..Len(ipcSent') : ipcSent'[k] = SaveOf(filePath', storyTimeline')]_vars

(* every frame of the scene lies in the video's extraction output directory *)
SceneOfVideo(scene, path) ==
    \A j \in 1..Len(scene.frames) : StartsWith(scene.frames[j], OutputDirOf(path) \o "/")

(* C9: when a video is selected the timeline holds no scene analysed for   *)
(* another video, and no such scene is saved into the selected video's     *)
(* extraction output directory.                                            *)
C9_TimelinePerVideo ==
    [][(filePath = "" /\ filePath' # "") =>
         /\ \A k \in 1..Len(storyTimeline') : SceneOfVideo(storyTimeline'[k], filePath')
         /\ \A k \in 1..Len(ipcSent') :
              ipcSent'[k].channel = "saveStoryTimeline" =>
                 \A j \in 1..Len(ipcSent'[k].timeline) :
                    SceneOfVideo(ipcSent'[k].timeline[j], filePath')]_vars

(* C9, the failing case: a video is selected, the timeline shows a scene   *)
(* of another video, and that scene was just saved into the selected       *)
(* video's output directory                                                *)
C9_Witness ==
    /\ filePath # ""
    /\ \E k \in 1..Len(storyTimeline) : ~SceneOfVideo(storyTimeline[k], filePath)
    /\ ipcSent = <<SaveOf(filePath, storyTimeline)>>

----------------------------------------------------------------------------
(* Claims about the response parsers (SpecParse) *)

(* what the call returns when the endpoint sends the body with no fence *)
LmUnwrapped ==
    CASE lmCall = "analyzeFrame" -> AnalyzeFrame(lmPaths[1], LmPathPool, "ok", lmBody)
      [] lmCall = "compareFrames" ->
            CompareFrames(lmPaths[1], lmPaths[2], LmPathPool, "ok", lmBody)
      [] OTHER -> AnalyzeSequence(lmPaths, LmPathPool, "ok", lmBody)

FencedJsonReceived ==
    /\ lmCall # "none"
    /\ lmHttp = "ok"
    /\ lmOpen # ""
    /\ lmClose # ""
    /\ JSONParse(lmBody).ok

(* C10: for analyzeFrame, compareFrames and analyzeSequence, a JSON        *)
(* response between a leading and a trailing triple-backtick fence, the    *)
(* leading one with the json tag or with no tag, gives the result that the *)
(* same JSON gives when sent with no fence.                                *)
C10_FencedParsedAsUnwrapped ==
    FencedJsonReceived => lmResult = Some(LmUnwrapped)

(* C10, the failing case: analyzeSequence received valid JSON in a fence   *)
(* tagged json and returned a failure                                      *)
C10_Witness ==
    /\ FencedJsonReceived
    /\ lmCall = "analyzeSequence"
    /\ lmOpen = "'''json\n"
    /\ ~lmResult[1].success
    /\ LmUnwrapped.success

(* the answer as the endpoint sent it *)
LmRawText == LmContent(lmOpen, lmBody, lmClose)

(* the endpoint answered, and what is left of the answer when the call has *)
(* removed the fences is not valid JSON                                    *)
InvalidJsonReceived ==
    /\ lmCall # "none"
    /\ lmHttp = "ok"
    /\ ~JSONParse(IF lmCall = "analyzeSequence"
                  THEN StripFencesSequence(LmRawText)
                  ELSE StripFences(LmRawText)).ok

(* C12: when the model's output is not valid JSON after fence stripping,   *)
(* analyzeFrame, compareFrames and analyzeSequence each return a failure   *)
(* whose error includes the raw response text, and never a success.        *)
C12_InvalidJsonErrorHasRawText ==
    InvalidJsonReceived =>
        /\ ~lmResult[1].success
        /\ lmResult[1].error # Undefined
        /\ Includes(lmResult[1].error[1], LmRawText)

(* C12, the failing case: analyzeFrame received prose, and its error is    *)
(* the fixed message, without the text                                     *)
C12_Witness ==
    /\ InvalidJsonReceived
    /\ lmCall = "analyzeFrame"
    /\ LmRawText = "I see a cat."
    /\ ~lmResult[1].success
    /\ lmResult[1].error = Some("Failed to parse AI response as JSON")

----------------------------------------------------------------------------
(* Claims about an extraction run (SpecRun) *)

ExtractorCalled(sent) ==
    \E i \in 1..Len(sent) :
        sent[i].channel \in {"extractTimeFrames", "extractKeyframes", "extractSceneChanges"}

(* C17: when the output directory already holds frames, a click on Run     *)
(* Extraction starts no extraction: it opens the reuse / re-run dialog,    *)
(* and no extractor is called before the user has chosen there.            *)
C17_ExistingFramesOpenDialog ==
    [][(RunExtractionButton /\ dirHasFrames)
        => (showExtractionDialog' /\ ~isProcessing' /\ ~ExtractorCalled(ipcSent'))]_vars

(* an extraction is running over a directory that holds frames, and the    *)
(* dialog was never shown                                                  *)
C17_Witness ==
    /\ dirHasFrames
    /\ isProcessing
    /\ ~showExtractionDialog
    /\ ExtractorCalled(ipcSent)

(* the last run ended without a rejection: frames is the list it built *)
RunSucceeded ==
    /\ runReturned # Undefined
    /\ ~Rejected(runReturned[1].time)
    /\ ~Rejected(runReturned[1].key)
    /\ ~Rejected(runReturned[1].scene)

FramesOfType(type) == SelectSeq(frames, LAMBDA f : f.type = type)

FramesWithPath(path) == SelectSeq(frames, LAMBDA f : f.path = path)

(* C18: when time sampling at rate N returns k paths, the i-th path is the *)
(* path of one frame record, of type time, with ordinal i and time i / N;  *)
(* so among the time records a larger ordinal has a larger time.           *)
C18_TimeRecordsByOrdinal ==
    RunSucceeded =>
        LET paths == Resolved(runReturned[1].time)
            rate == runReturned[1].rate
        IN  /\ \A i \in 1..Len(paths) :
                 /\ Len(FramesWithPath(paths[i])) = 1
                 /\ FramesWithPath(paths[i])[1].type = "time"
                 /\ FramesWithPath(paths[i])[1].frame = i
                 /\ FramesWithPath(paths[i])[1].time # Undefined
                 /\ FramesWithPath(paths[i])[1].time[1].num * rate
                        = i * FramesWithPath(paths[i])[1].time[1].den
            /\ Len(FramesOfType("time")) = Len(paths)
            /\ \A a, b \in 1..Len(paths) :
                 a < b =>
                    FramesWithPath(paths[a])[1].time[1].num
                        * FramesWithPath(paths[b])[1].time[1].den
                    < FramesWithPath(paths[b])[1].time[1].num
                        * FramesWithPath(paths[a])[1].time[1].den

(* a run at the default rate returned MaxShots paths, next to scene frames *)
C18_Witness ==
    /\ RunSucceeded
    /\ ~isProcessing
    /\ runReturned[1].rate = DefaultFps
    /\ Len(Resolved(runReturned[1].time)) = MaxShots
    /\ Len(Resolved(runReturned[1].scene)) > 0
    /\ Len(frames) = MaxShots + Len(Resolved(runReturned[1].scene))

(* a.time <= b.time for two times that are present *)
NotLater(a, b) == a[1].num * b[1].den <= b[1].num * a[1].den

EveryFrameHasTime == \A i \in 1..Len(frames) : frames[i].time # Undefined

(* C19: after a run in which every record carries a time (time sampling    *)
(* and / or scene changes, a scene frame at time 0 included), the final    *)
(* frame list is in non-decreasing order of time.                          *)
C19_SortedByTime ==
    (RunSucceeded /\ EveryFrameHasTime) =>
        \A i \in 1..(Len(frames) - 1) : NotLater(frames[i].time, frames[i + 1].time)

(* a finished run that mixed time frames with a scene frame at time 0 *)
C19_Witness ==
    /\ RunSucceeded
    /\ ~isProcessing
    /\ EveryFrameHasTime
    /\ Len(FramesOfType("time")) > 0
    /\ \E i \in 1..Len(frames) : frames[i].type = "scene" /\ frames[i].time[1].num = 0

OrdinalsOf(type) == {FramesOfType(type)[i].frame : i \in 1..Len(FramesOfType(type))}

(* C20: within one run the records of each mode's batch carry the ordinals *)
(* 1..k, each once (scene records included, whose ordinal comes from the   *)
(* showinfo line), and no two records of the run share a path.             *)
C20_OrdinalsContiguousPathsUnique ==
    RunSucceeded =>
        /\ \A type \in {"time", "keyframe", "scene"} :
             /\ OrdinalsOf(type) = 1..Len(FramesOfType(type))
             /\ \A i, j \in 1..Len(FramesOfType(type)) :
                  FramesOfType(type)[i].frame = FramesOfType(type)[j].frame => i = j
        /\ \A i, j \in 1..Len(frames) : frames[i].path = frames[j].path => i = j

(* a finished run with records of all three modes *)
C20_Witness ==
    /\ RunSucceeded
    /\ ~isProcessing
    /\ Len(FramesOfType("time")) > 0
    /\ Len(FramesOfType("keyframe")) > 0
    /\ Len(FramesOfType("scene")) = MaxLines

ListingRequested(sent) == \E i \in 1..Len(sent) : sent[i].channel = "listFrames"

----------------------------------------------------------------------------
(* Claims about the embedded images (SpecMime) *)

(* the type the extension of a path stands for, letter case aside *)
MimeOfExtension(imagePath) ==
    LET name == ToLowerCase(imagePath)
    IN  CASE EndsWith(name, "a.png") -> "image/png"
          [] EndsWith(name, "a.jpg") -> "image/jpeg"
          [] EndsWith(name, "a.jpeg") -> "image/jpeg"
          [] EndsWith(name, "a.gif") -> "image/gif"
          [] EndsWith(name, "a.webp") -> "image/webp"
          [] EndsWith(name, "a.bmp") -> "image/bmp"
          [] OTHER -> "image/png"

(* C22: in every request shape, each embedded image's MIME type follows    *)
(* from its file extension: png, jpg / jpeg, gif, webp and bmp give their  *)
(* own type and any other extension gives image/png.                       *)
C22_MimeFromExtension ==
    lmCall # "none" =>
        /\ Len(lmMimes) = Len(lmPaths)
        /\ \A i \in 1..Len(lmPaths) : lmMimes[i] = MimeOfExtension(lmPaths[i])

(* a narrative request that embeds a gif *)
C22_Witness ==
    /\ lmCall = "analyzeSequence"
    /\ Len(lmPaths) >= 2
    /\ lmPaths[1] = "a.gif"
    /\ Len(lmMimes) = Len(lmPaths)

----------------------------------------------------------------------------
(* Claims about the storyboard's panels and the timeline (SpecPanels) *)

(* this step is a click on a picker frame that handleFrameSelect acted on *)
FramePicked ==
    /\ ~PickerClosed
    /\ editingPanelIndex' = Undefined
    /\ consoleLog' # <<>>

(* the analysis on screen after the step differs from the one before it    *)
(* in the best_frame_index of the edited panel at most, and that index is  *)
(* one of the picker's frames                                              *)
OnlyEditedPanelChanged ==
    /\ sbAnalysis # Undefined
    /\ sbAnalysis' # Undefined
    /\ LET before == sbAnalysis[1]
           after == sbAnalysis'[1]
           p == editingPanelIndex[1] + 1
       IN  /\ after.scene_id = before.scene_id
           /\ after.frames = before.frames
           /\ after.summary = before.summary
           /\ Len(PanelsOf(after)) = Len(PanelsOf(before))
           /\ p \in 1..Len(PanelsOf(before))
           /\ \A q \in 1..Len(PanelsOf(before)) :
                 q # p => PanelsOf(after)[q] = PanelsOf(before)[q]
           /\ PanelsOf(after)[p].role = PanelsOf(before)[p].role
           /\ PanelsOf(after)[p].best_frame_index \in 0..(Len(storyboardFrames) - 1)

(* handleFrameSelect without a panel being edited, or without an analysis, *)
(* leaves the view as it is and hands nothing to onAnalysisComplete        *)
EarlyReturnChangesNothing ==
    \A analysis \in {Undefined, sbAnalysis, cachedAnalysis},
       editing \in {Undefined, editingPanelIndex, Some(0), Some(1)},
       frameIdx \in 0..(MaxFrames - 1) :
        (editing = Undefined \/ analysis = Undefined) =>
            /\ HandleFrameSelect(analysis, editing, frameIdx).analysis = analysis
            /\ HandleFrameSelect(analysis, editing, frameIdx).editing = editing
            /\ HandleFrameSelect(analysis, editing, frameIdx).completed = <<>>

C27_TimelineSceneIdsUnique ==
    \A i, j \in 1..Len(storyTimeline) :
        storyTimeline[i].scene_id = storyTimeline[j].scene_id => i = j

(* a panel edit has just been merged into a timeline of two scenes: the    *)
(* edited scene took the place of its earlier entry                        *)
C27_Witness ==
    /\ Len(storyTimeline) = 2
    /\ storyTimeline[1].scene_id # storyTimeline[2].scene_id
    /\ consoleLog = <<"Auto-synced scene in timeline:">>
    /\ PickerClosed
    /\ sbAnalysis # Undefined
    /\ \E k \in 1..2 :
          /\ storyTimeline[k] = sbAnalysis[1]
          /\ PanelsOf(storyTimeline[k])[1].role = "setup"
          /\ PanelsOf(storyTimeline[k])[1].best_frame_index # 0

----------------------------------------------------------------------------
(* Claims about the grid's selection and the open storyboard (Spec) *)

(* C28: in every reachable state every selected frame index is an index    *)
(* of the current frame list, also after another video is selected or a    *)
(* new extraction yields fewer frames, so that story analysis never reads  *)
(* the path of a missing frame                                             *)
C28_SelectionWithinFrames ==
    /\ \A idx \in selectedIndices : HasFrame(idx)
    /\ consoleLog # <<"TypeError: Cannot read properties of undefined (reading 'path')">>

(* Analyze Story was clicked with a selected index past the end of the     *)
(* frame list                                                              *)
C28_Witness ==
    /\ consoleLog = <<"TypeError: Cannot read properties of undefined (reading 'path')">>
    /\ Len(frames) > 0
    /\ \E idx \in selectedIndices : ~HasFrame(idx)

(* C29: whenever the storyboard view shows an analysis, the frames list of *)
(* that analysis equals the frame-path list the view is opened on, under   *)
(* any interleaving of closing the view, re-opening it on another          *)
(* selection and the late completion of an earlier narrative request       *)
C29_ShownAnalysisMatchesOpenFrames ==
    (StoryboardShown /\ sbAnalysis # Undefined) => sbAnalysis[1].frames = storyboardFrames

====
